---- MODULE Spec2Model ----
(***************************************************************************)
(* A model of readindicators.py: the DHIS2 indicator-metadata scraper.     *)
(*                                                                         *)
(* Python strings are modelled as sequences of one-character strings, so   *)
(* that the regular expressions of the source are modelled by what they    *)
(* match.  Enumeration members, registry collection names and exception    *)
(* names are TLA+ strings.  An optional value is NoneV or Some(v); the     *)
(* outcome of a call is Ret(v) or Exc(name) when the call raises.          *)
(***************************************************************************)
EXTENDS Integers, Sequences, FiniteSets, TLC

VARIABLES
  registry,     \* what the DHIS2 system answers: id -> NoneV, Some([coll, json]) or NotJson
  auth,         \* main's auth, which the parser keeps as _auth: key -> value
  element_type, \* DHIS2Parser._element_type
  element_ids,  \* DHIS2Parser._element_ids
  vbl_names,    \* DHIS2Parser._vbl_names: vbl_id -> [name, code, type]
  indicator_type_map, \* DHIS2Parser._indicator_type_map
  group,        \* DHIS2Parser.group
  group_desc,   \* DHIS2Parser.group_desc
  indic_to_desc, \* DHIS2Parser._indic_to_desc: indicator id -> values
  mainpc,       \* where main is: "construct", "loop", "scan", "pool", "done", "crashed"
  batch,        \* main's group_ids
  gi,           \* the position in batch of the group id the loop is at
  output_values, \* main's output_values
  tasks,        \* the tasks of the executor of the current scan
  queries,      \* how many lookups of each variable id were sent to the registry
  pin,          \* the arguments of the function under study (pure specifications)
  pout          \* its outcome, or NotCalled

parser_vars ==
  <<group, group_desc, element_type, element_ids, vbl_names, indic_to_desc,
    indicator_type_map>>
main_vars == <<mainpc, batch, gi, output_values, tasks>>
vars == <<registry, auth, parser_vars, main_vars, queries, pin, pout>>

-----------------------------------------------------------------------------
(* Values *)

NoneV == [none |-> TRUE]
Some(v) == [none |-> FALSE, v |-> v]
IsNone(o) == o.none

Ret(v) == [kind |-> "return", val |-> v]
Exc(name) == [kind |-> "raise", exc |-> name]
Raised(r) == r.kind = "raise"
NotCalled == [kind |-> "notcalled"]

-----------------------------------------------------------------------------
(* Characters and strings *)

\* chr(n) for n in 0..255, at index n + 1.  A character that cannot stand in
\* a TLA+ string (0, 96 and 128 to 255) is written as its escape '\xhh'.
chr ==
  <<"\\x00", "", "", "", "", "", "", "",
    "", "\t", "\n", "", "\f", "\r", "", "",
    "", "", "", "", "", "", "", "",
    "", "", "", "", "", "", "", "",
    " ", "!", "\"", "#", "$", "%", "&", "'",
    "(", ")", "*", "+", ",", "-", ".", "/",
    "0", "1", "2", "3", "4", "5", "6", "7",
    "8", "9", ":", ";", "<", "=", ">", "?",
    "@", "A", "B", "C", "D", "E", "F", "G",
    "H", "I", "J", "K", "L", "M", "N", "O",
    "P", "Q", "R", "S", "T", "U", "V", "W",
    "X", "Y", "Z", "[", "\\", "]", "^", "_",
    "\\x60", "a", "b", "c", "d", "e", "f", "g",
    "h", "i", "j", "k", "l", "m", "n", "o",
    "p", "q", "r", "s", "t", "u", "v", "w",
    "x", "y", "z", "{", "|", "}", "~", "",
    "\\x80", "\\x81", "\\x82", "\\x83", "\\x84", "\\x85", "\\x86", "\\x87",
    "\\x88", "\\x89", "\\x8a", "\\x8b", "\\x8c", "\\x8d", "\\x8e", "\\x8f",
    "\\x90", "\\x91", "\\x92", "\\x93", "\\x94", "\\x95", "\\x96", "\\x97",
    "\\x98", "\\x99", "\\x9a", "\\x9b", "\\x9c", "\\x9d", "\\x9e", "\\x9f",
    "\\xa0", "\\xa1", "\\xa2", "\\xa3", "\\xa4", "\\xa5", "\\xa6", "\\xa7",
    "\\xa8", "\\xa9", "\\xaa", "\\xab", "\\xac", "\\xad", "\\xae", "\\xaf",
    "\\xb0", "\\xb1", "\\xb2", "\\xb3", "\\xb4", "\\xb5", "\\xb6", "\\xb7",
    "\\xb8", "\\xb9", "\\xba", "\\xbb", "\\xbc", "\\xbd", "\\xbe", "\\xbf",
    "\\xc0", "\\xc1", "\\xc2", "\\xc3", "\\xc4", "\\xc5", "\\xc6", "\\xc7",
    "\\xc8", "\\xc9", "\\xca", "\\xcb", "\\xcc", "\\xcd", "\\xce", "\\xcf",
    "\\xd0", "\\xd1", "\\xd2", "\\xd3", "\\xd4", "\\xd5", "\\xd6", "\\xd7",
    "\\xd8", "\\xd9", "\\xda", "\\xdb", "\\xdc", "\\xdd", "\\xde", "\\xdf",
    "\\xe0", "\\xe1", "\\xe2", "\\xe3", "\\xe4", "\\xe5", "\\xe6", "\\xe7",
    "\\xe8", "\\xe9", "\\xea", "\\xeb", "\\xec", "\\xed", "\\xee", "\\xef",
    "\\xf0", "\\xf1", "\\xf2", "\\xf3", "\\xf4", "\\xf5", "\\xf6", "\\xf7",
    "\\xf8", "\\xf9", "\\xfa", "\\xfb", "\\xfc", "\\xfd", "\\xfe", "\\xff">>

Digits == {"0", "1", "2", "3", "4", "5", "6", "7", "8", "9"}

\* \w and \s of Python's re module for a str pattern, among the characters
\* 0 to 255.  Letters holds what \w matches besides the decimal digits and
\* the underscore: the ASCII letters, the Latin-1 letters (170, 181, 186,
\* 192 to 255 without the signs 215 and 247) and the Latin-1 numerics (the
\* superscripts 178, 179, 185 and the fractions 188 to 190).  \s matches
\* the characters 9 to 13 and 28 to 32, NEL (133) and the no-break space
\* (160).  \d matches no character of Latin-1 but the ASCII digits.
Letters ==
  {chr[n + 1] : n \in (65..90) \cup (97..122)
                        \cup {170, 178, 179, 181, 185, 186} \cup (188..190)
                        \cup (192..214) \cup (216..246) \cup (248..255)}
WordChars == Letters \cup Digits \cup {"_"}
Whitespace == {chr[n + 1] : n \in (9..13) \cup (28..32) \cup {133, 160}}

DigitVal(c) ==
  CASE c = "0" -> 0 [] c = "1" -> 1 [] c = "2" -> 2 [] c = "3" -> 3
    [] c = "4" -> 4 [] c = "5" -> 5 [] c = "6" -> 6 [] c = "7" -> 7
    [] c = "8" -> 8 [] c = "9" -> 9

\* int(s) for a string of decimal digits
RECURSIVE StrToInt(_)
StrToInt(s) ==
  IF s = <<>> THEN 0
  ELSE 10 * StrToInt(SubSeq(s, 1, Len(s) - 1)) + DigitVal(s[Len(s)])

\* str(n) for a non-negative integer
RECURSIVE IntToStr(_)
IntToStr(n) ==
  IF n < 10 THEN <<CHOOSE c \in Digits : DigitVal(c) = n>>
  ELSE IntToStr(n \div 10) \o IntToStr(n % 10)

RECURSIVE Flatten(_)
Flatten(ss) == IF ss = <<>> THEN <<>> ELSE Head(ss) \o Flatten(Tail(ss))

\* whether string p occurs in s at position i
StartsAt(s, i, p) ==
  /\ i + Len(p) - 1 <= Len(s)
  /\ \A k \in 1..Len(p) : s[i + k - 1] = p[k]

\* the end (exclusive) of the longest run of characters of class cls from i
RECURSIVE RunEnd(_, _, _)
RunEnd(s, i, cls) ==
  IF i <= Len(s) /\ s[i] \in cls THEN RunEnd(s, i + 1, cls) ELSE i

\* re.sub(<one character of cls>, repl, s)
RECURSIVE SubChars(_, _, _)
SubChars(s, cls, repl) ==
  IF s = <<>> THEN <<>>
  ELSE (IF Head(s) \in cls THEN repl ELSE <<Head(s)>>)
         \o SubChars(Tail(s), cls, repl)

-----------------------------------------------------------------------------
(* ValidationErrCode: index, English template, number of blanks.  A        *)
(* template is a string; each blank in it is the text '___'.               *)

BLANK == <<"_", "_", "_">>

ValidationErrCode ==
  [ NO_ERRORS |->
      [index |-> 0, num_blanks |-> 0,
       eng_errmsg_template |->
         <<"N", "o", " ", "e", "r", "r", "o", "r", "s", " ", "f", "o", "u",
           "n", "d", " ", "i", "n", " ", "i", "n", "d", "i", "c", "a", "t",
           "o", "r">>],
    INDIC_NOT_IN_REG |->
      [index |-> 1, num_blanks |-> 1,
       eng_errmsg_template |->
         <<"I", "n", "d", "i", "c", "a", "t", "o", "r", " ", "_", "_", "_",
           " ", "n", "o", "t", " ", "i", "n", " ", "r", "e", "g", "i", "s",
           "t", "r", "y">>],
    INDIC_NO_DISPLAY_NAME |->
      [index |-> 2, num_blanks |-> 1,
       eng_errmsg_template |->
         <<"I", "n", "d", "i", "c", "a", "t", "o", "r", " ", "_", "_", "_",
           " ", "h", "a", "s", " ", "n", "o", " ", "d", "i", "s", "p", "l",
           "a", "y", " ", "n", "a", "m", "e">>],
    NUMER_NO_DESC |->
      [index |-> 3, num_blanks |-> 0,
       eng_errmsg_template |->
         <<"N", "o", " ", "d", "e", "s", "c", "r", "i", "p", "t", "i", "o",
           "n", " ", "o", "f", " ", "t", "h", "e", " ", "n", "u", "m", "e",
           "r", "a", "t", "o", "r">>],
    DENOM_NO_DESC |->
      [index |-> 4, num_blanks |-> 0,
       eng_errmsg_template |->
         <<"N", "o", " ", "d", "e", "s", "c", "r", "i", "p", "t", "i", "o",
           "n", " ", "o", "f", " ", "t", "h", "e", " ", "d", "e", "n", "o",
           "m", "i", "n", "a", "t", "o", "r", ";", " ", "w", "e", " ", "a",
           "s", "s", "u", "m", "e", " ", "i", "t", " ", "i", "s", " ", "1">>],
    NUMER_NO_FORMULA |->
      [index |-> 5, num_blanks |-> 0,
       eng_errmsg_template |->
         <<"N", "u", "m", "e", "r", "a", "t", "o", "r", " ", "h", "a", "s",
           " ", "n", "o", " ", "f", "o", "r", "m", "u", "l", "a">>],
    DENOM_NO_FORMULA |->
      [index |-> 6, num_blanks |-> 0,
       eng_errmsg_template |->
         <<"D", "e", "n", "o", "m", "i", "n", "a", "t", "o", "r", " ", "h",
           "a", "s", " ", "n", "o", " ", "f", "o", "r", "m", "u", "l", "a">>],
    DENOM_FORMULA_NO_MATCH |->
      [index |-> 7, num_blanks |-> 0,
       eng_errmsg_template |->
         <<"D", "e", "n", "o", "m", "i", "n", "a", "t", "o", "r", " ", "f",
           "o", "r", "m", "u", "l", "a", " ", "d", "o", "e", "s", " ", "n",
           "o", "t", " ", "m", "a", "t", "c", "h", " ", "d", "e", "s", "c",
           "r", "i", "p", "t", "i", "o", "n">>],
    INDIC_NUMBER_MISSING |->
      [index |-> 8, num_blanks |-> 1,
       eng_errmsg_template |->
         <<"I", "n", "d", "i", "c", "a", "t", "o", "r", " ", "d", "e", "s",
           "c", "r", "i", "p", "t", "i", "o", "n", " ", "h", "a", "s", " ",
           "a", " ", "n", "u", "m", "b", "e", "r", " ", "i", "n", " ", "i",
           "t", " ", "(", "_", "_", "_", ")", " ", "w", "h", "i", "c", "h",
           " ", "d", "o", "e", "s", " ", "n", "o", "t", " ", "a", "p", "p",
           "e", "a", "r", " ", "i", "n", " ", "n", "u", "m", "e", "r", "a",
           "t", "o", "r", " ", "o", "r", " ", "d", "e", "n", "o", "m", "i",
           "n", "a", "t", "o", "r", " ", "d", "e", "s", "c", "r", "i", "p",
           "t", "i", "o", "n", "s", " ", "o", "r", " ", "t", "h", "e", " ",
           "i", "n", "d", "i", "c", "a", "t", "o", "r", " ", "t", "y", "p",
           "e">>],
    FORMULA_NUMBER_MISSING |->
      [index |-> 9, num_blanks |-> 2,
       eng_errmsg_template |->
         <<"_", "_", "_", " ", "d", "e", "s", "c", "r", "i", "p", "t", "i",
           "o", "n", " ", "c", "o", "n", "t", "a", "i", "n", "s", " ", "a",
           " ", "n", "u", "m", "b", "e", "r", " ", "(", "_", "_", "_", ")",
           " ", "w", "h", "i", "c", "h", " ", "d", "o", "e", "s", " ", "n",
           "o", "t", " ", "a", "p", "p", "e", "a", "r", " ", "i", "n", " ",
           "t", "h", "e", " ", "f", "o", "r", "m", "u", "l", "a">>],
    VBL_NOT_IN_REG |->
      [index |-> 10, num_blanks |-> 2,
       eng_errmsg_template |->
         <<"V", "a", "r", "i", "a", "b", "l", "e", " ", "_", "_", "_", " ",
           "a", "p", "p", "e", "a", "r", "i", "n", "g", " ", "i", "n", " ",
           "t", "h", "e", " ", "f", "o", "r", "m", "u", "l", "a", " ", "f",
           "o", "r", " ", "_", "_", "_", " ", "i", "s", " ", "n", "o", "t",
           " ", "i", "n", " ", "t", "h", "e", " ", "r", "e", "g", "i", "s",
           "t", "r", "y">>],
    VBL_NO_METADATA |->
      [index |-> 11, num_blanks |-> 3,
       eng_errmsg_template |->
         <<"V", "a", "r", "i", "a", "b", "l", "e", " ", "_", "_", "_", " ",
           "o", "f", " ", "t", "y", "p", "e", " ", "_", "_", "_", " ", "a",
           "p", "p", "e", "a", "r", "i", "n", "g", " ", "i", "n", " ", "t",
           "h", "e", " ", "f", "o", "r", "m", "u", "l", "a", " ", "f", "o",
           "r", " ", "_", "_", "_", " ", "h", "a", "s", " ", "n", "o", " ",
           "v", "a", "l", "i", "d", " ", "m", "e", "t", "a", "d", "a", "t",
           "a">>],
    NUMER_EQS_DENOM |->
      [index |-> 12, num_blanks |-> 0,
       eng_errmsg_template |->
         <<"N", "u", "m", "e", "r", "a", "t", "o", "r", " ", "a", "n", "d",
           " ", "d", "e", "n", "o", "m", "i", "n", "a", "t", "o", "r", " ",
           "h", "a", "v", "e", " ", "t", "h", "e", " ", "s", "a", "m", "e",
           " ", "f", "o", "r", "m", "u", "l", "a">>],
    INDIC_PARSE_FAILED |->
      [index |-> 13, num_blanks |-> 1,
       eng_errmsg_template |->
         <<"P", "a", "r", "s", "i", "n", "g", " ", "o", "f", " ", "i", "n",
           "d", "i", "c", "a", "t", "o", "r", " ", "_", "_", "_", " ", "f",
           "a", "i", "l", "e", "d">>] ]

\* The replacement text that re.sub makes of its second argument, read from
\* position i, for the pattern '___' (no groups, so the only group is the
\* whole match).  A backslash starts an escape: \g<0> is the matched text,
\* \0, \0o, \0oo and \ooo (at most 0o377) are the character of that octal
\* code, \a \b \f \n \r \t \v \\ are one character, a backslash before a
\* character that is neither an ASCII letter nor a digit stays with that
\* character.  Any other group number, any other letter or a backslash at
\* the end raises re.error, a group name raises IndexError.
RECURSIVE expand_template(_, _)
expand_template(repl, i) ==
  LET n == Len(repl)
      \* str.isidentifier(): a letter or the underscore, then letters,
      \* decimal digits, underscores and the middle dot (183); the Latin-1
      \* numerics are no part of an identifier
      Numerics == {chr[m + 1] : m \in {178, 179, 185, 188, 189, 190}}
      isidentifier(name) ==
        /\ name[1] \in (Letters \ Numerics) \cup {"_"}
        /\ \A k \in 1..Len(name) :
             name[k] \in (WordChars \ Numerics) \cup {chr[184]}
      \* int(name) = 0: a group name that is not an identifier is handed to
      \* int(), which drops surrounding whitespace (the characters 9 to 13,
      \* 32, 133 and 160, not 28 to 31) and one sign and allows a single
      \* underscore between two digits
      int_is_zero(name) ==
        LET inner == {k \in 1..Len(name) :
                        name[k] \notin Whitespace
                          \/ name[k] \in {chr[m + 1] : m \in 28..31}} IN
        /\ inner # {}
        /\ LET lo == CHOOSE k \in inner : \A m \in inner : k <= m
               hi == CHOOSE k \in inner : \A m \in inner : m <= k
               from == IF name[lo] \in {"+", "-"} THEN lo + 1 ELSE lo
           IN /\ from <= hi
              /\ name[from] = "0"
              /\ name[hi] = "0"
              /\ \A k \in from..hi : name[k] \in {"0", "_"}
              /\ \A k \in from..(hi - 1) :
                   ~(name[k] = "_" /\ name[k + 1] = "_")
      OctDigits == {"0", "1", "2", "3", "4", "5", "6", "7"}
      IsOct(k) == k <= n /\ repl[k] \in OctDigits
      Then(text, j) ==
        LET rest == expand_template(repl, j)
        IN IF Raised(rest) THEN rest ELSE Ret(text \o rest.val)
  IN
  IF i > n THEN Ret(<<>>)
  ELSE IF repl[i] # "\\" THEN Then(<<repl[i]>>, i + 1)
  ELSE IF i = n THEN Exc("error")
  ELSE
    LET c == repl[i + 1] IN
    IF c = "g" THEN
      LET closes == {k \in (i + 3)..n : repl[k] = ">"} IN
      IF i + 2 > n \/ repl[i + 2] # "<" \/ closes = {} THEN Exc("error")
      ELSE
        LET close == CHOOSE k \in closes : \A m \in closes : k <= m
            name == SubSeq(repl, i + 3, close - 1)
        IN \* the tokenizer reads one token ahead: a backslash that ends
           \* the string fails as soon as '>' is consumed
           IF (close + 1 = n /\ repl[n] = "\\") \/ name = <<>>
             THEN Exc("error")
           ELSE IF isidentifier(name) THEN Exc("IndexError")
           ELSE IF int_is_zero(name) THEN Then(BLANK, close + 1)
           ELSE Exc("error")
    ELSE IF c = "0" THEN
      IF IsOct(i + 2) /\ IsOct(i + 3)
        THEN Then(<<chr[8 * DigitVal(repl[i + 2]) + DigitVal(repl[i + 3]) + 1]>>,
                  i + 4)
      ELSE IF IsOct(i + 2)
        THEN Then(<<chr[DigitVal(repl[i + 2]) + 1]>>, i + 3)
      ELSE Then(<<chr[1]>>, i + 2)
    ELSE IF c \in Digits THEN
      IF c \in OctDigits /\ IsOct(i + 2) /\ IsOct(i + 3)
           /\ DigitVal(c) <= 3
        THEN Then(<<chr[64 * DigitVal(c) + 8 * DigitVal(repl[i + 2])
                          + DigitVal(repl[i + 3]) + 1]>>, i + 4)
      ELSE Exc("error")
    ELSE IF c \in {"a", "b", "f", "n", "r", "t", "v", "\\"} THEN
      Then(<<CASE c = "a" -> chr[8] [] c = "b" -> chr[9] [] c = "f" -> "\f"
               [] c = "n" -> "\n" [] c = "r" -> "\r" [] c = "t" -> "\t"
               [] c = "v" -> chr[12] [] c = "\\" -> "\\">>, i + 2)
    ELSE IF c \in {chr[m + 1] : m \in (65..90) \cup (97..122)}
      THEN Exc("error")
    ELSE Then(<<"\\", c>>, i + 2)

\* errmsg from position i on with every '___' replaced by text, the matches
\* taken from the left and not overlapping; the text put in is not searched
RECURSIVE replace_blanks(_, _, _)
replace_blanks(errmsg, i, text) ==
  LET starts == {k \in i..Len(errmsg) :
                   errmsg[k] = BLANK[1] /\ StartsAt(errmsg, k, BLANK)} IN
  IF starts = {} THEN SubSeq(errmsg, i, Len(errmsg))
  ELSE LET k == CHOOSE m \in starts : \A o \in starts : m <= o
       IN SubSeq(errmsg, i, k - 1) \o text
            \o replace_blanks(errmsg, k + Len(BLANK), text)

\* re.sub('___', repl, errmsg): with no count given, every blank is
\* replaced; repl is a replacement template, expanded before the search
ReSubBlank(repl, errmsg) ==
  LET text == expand_template(repl, 1)
  IN IF Raised(text) THEN text ELSE Ret(replace_blanks(errmsg, 1, text.val))

\* lines 71-72: one re.sub for each of the num_blanks fill-ins, each on the
\* result of the one before
RECURSIVE FillBlanks(_, _, _, _)
FillBlanks(errmsg, fillin_list, i, num_blanks) ==
  IF i > num_blanks THEN Ret(errmsg)
  ELSE LET pass == ReSubBlank(fillin_list[i], errmsg)
       IN IF Raised(pass) THEN pass
          ELSE FillBlanks(pass.val, fillin_list, i + 1, num_blanks)

eng_errmsg(code, fillin_list) ==
  LET self == ValidationErrCode[code] IN
  IF Len(fillin_list) # self.num_blanks THEN Exc("ValueError")
  ELSE FillBlanks(self.eng_errmsg_template, fillin_list, 1, self.num_blanks)

-----------------------------------------------------------------------------
(* extract_numerical_factor *)

factor_words ==
  << <<"t","e","n">>, <<"h","u","n","d","r","e","d">>,
     <<"t","h","o","u","s","a","n","d">>, <<"m","i","l","l","i","o","n">>,
     <<"b","i","l","l","i","o","n">>, <<"p","e","r","c","e","n","t">> >>

factor_dict(w) ==
  CASE w = factor_words[1] -> 10
    [] w = factor_words[2] -> 100
    [] w = factor_words[3] -> 1000
    [] w = factor_words[4] -> 1000000
    [] w = factor_words[5] -> 1000000000
    [] w = factor_words[6] -> 100

\* (?:pour|per|par|[\*\/]) : the prefixes of the first alternative
mult_prefixes ==
  << <<"p","o","u","r">>, <<"p","e","r">>, <<"p","a","r">>, <<"*">>, <<"/">> >>

\* The match of  (?:pour|per|par|[\*\/])(\d+)|(\d+)\*  that starts at i, as
\* its two groups; NoneV when neither alternative matches at i.
MultMatchAt(s, i) ==
  LET ps == {k \in 1..Len(mult_prefixes) :
                /\ StartsAt(s, i, mult_prefixes[k])
                /\ i + Len(mult_prefixes[k]) <= Len(s)
                /\ s[i + Len(mult_prefixes[k])] \in Digits}
      e2 == RunEnd(s, i, Digits)
  IN IF ps # {}
       THEN LET k == CHOOSE k \in ps : \A j \in ps : k <= j
                b == i + Len(mult_prefixes[k])
            IN Some([g1 |-> Some(SubSeq(s, b, RunEnd(s, b, Digits) - 1)),
                     g2 |-> NoneV, ngroups |-> 2])
     ELSE IF e2 > i /\ e2 <= Len(s) /\ s[e2] = "*"
       THEN Some([g1 |-> NoneV, g2 |-> Some(SubSeq(s, i, e2 - 1)),
                  ngroups |-> 2])
     ELSE NoneV

\* The match of (\d+) that starts at i
DigitsMatchAt(s, i) ==
  LET e == RunEnd(s, i, Digits) IN
  IF e > i THEN Some([g1 |-> Some(SubSeq(s, i, e - 1)), g2 |-> NoneV,
                      ngroups |-> 1])
  ELSE NoneV

\* the match m if there is one, otherwise what the search finds further on
first_match(m, further) == IF IsNone(m) THEN further ELSE m

\* re.search(number_regex, s): the leftmost match
RECURSIVE NumberSearch(_, _, _)
NumberSearch(s, i, is_multiplicative) ==
  IF i > Len(s) THEN NoneV
  ELSE first_match(IF is_multiplicative THEN MultMatchAt(s, i)
                   ELSE DigitsMatchAt(s, i),
                   NumberSearch(s, i + 1, is_multiplicative))

\* factor_regex is (?:^|\s)(ten|...|percent)(?:\s|$): the
\* <<start of the word, index of the word>> of the matches that begin at i
FactorHits(s, i) ==
  LET lead == IF i <= Len(s) /\ s[i] \in Whitespace THEN {i + 1} ELSE {}
      starts == IF i = 1 THEN {1} \cup lead ELSE lead
  IN {<<b, k>> \in starts \X (1..Len(factor_words)) :
        /\ StartsAt(s, b, factor_words[k])
        /\ LET e == b + Len(factor_words[k])
           IN e = Len(s) + 1 \/ (e <= Len(s) /\ s[e] \in Whitespace)}

\* the earliest of the matches: its word, and the position after the
\* separator it consumes
FactorEarliest(s, hits) ==
  IF hits = {} THEN NoneV
  ELSE LET h == CHOOSE h \in hits : \A g \in hits : h[1] <= g[1]
           e == h[1] + Len(factor_words[h[2]])
       IN Some([word |-> factor_words[h[2]],
                end |-> IF e <= Len(s) THEN e + 1 ELSE e])

FactorMatchAt(s, i) == FactorEarliest(s, FactorHits(s, i))

RECURSIVE FactorFindIter(_, _)

\* the words from position i on, m being the match at i
FactorFindFrom(s, i, m) ==
  IF IsNone(m) THEN FactorFindIter(s, i + 1)
  ELSE <<m.v.word>> \o FactorFindIter(s, m.v.end)

\* re.finditer(factor_regex, s) from position i: the words matched, left to
\* right
FactorFindIter(s, i) ==
  IF i > Len(s) THEN <<>> ELSE FactorFindFrom(s, i, FactorMatchAt(s, i))

RECURSIVE FactorProduct(_)
FactorProduct(ws) ==
  IF ws = <<>> THEN 1 ELSE factor_dict(Head(ws)) * FactorProduct(Tail(ws))

\* lines 178-195, given the match of number_regex and the factor words:
\* the group that is read and int() of it, or the product of the factors
number_or_factors(number_match, factors) ==
  LET m == number_match.v
      g == IF m.ngroups < 3 THEN m.g1
           ELSE IF ~IsNone(m.g1) THEN m.g1 ELSE m.g2
  IN IF ~IsNone(number_match)
       THEN IF IsNone(g) THEN Exc("TypeError") ELSE Ret(Some(StrToInt(g.v)))
     ELSE IF factors # <<>> THEN Ret(Some(FactorProduct(factors)))
     ELSE Ret(NoneV)

\* Outcome: Ret(Some(n)), Ret(NoneV), or Exc("TypeError") from int(None)
extract_numerical_factor(display_text, is_multiplicative) ==
  number_or_factors(
    NumberSearch(SubChars(display_text, Whitespace \cup {","}, <<>>), 1,
                 is_multiplicative),
    FactorFindIter(SubChars(display_text, Whitespace \cup {"-"},
                            <<" ", " ">>), 1))

-----------------------------------------------------------------------------
(* String literals of the source *)

S_numerator == <<"n","u","m","e","r","a","t","o","r">>
S_unknown == <<"?","?","?","?","?","?">>
S_one == <<"1">>
S_identifiableObjects ==
  <<"i","d","e","n","t","i","f","i","a","b","l","e","O","b","j","e","c","t","s">>
S_indicators == <<"i","n","d","i","c","a","t","o","r","s">>
S_indicatorGroups == <<"i","n","d","i","c","a","t","o","r","G","r","o","u","p","s">>
S_OUG == <<"O","U","G">>

-----------------------------------------------------------------------------
(* Names the interpreter can resolve.  A name that is read but bound        *)
(* nowhere raises NameError; an attribute no statement sets raises          *)
(* AttributeError.                                                          *)

\* the module-level names bound by the imports and definitions of the file
ModuleGlobals ==
  {"argparse", "concurrent", "json", "os", "re", "requests", "sys",
   "threading", "ThreadPoolExecutor", "load_dotenv", "find_dotenv", "Enum",
   "NUM_THREADS", "fieldnames", "ValidationErrCode", "dhis_params_dict",
   "construct_display_url", "construct_dhis_urls", "get_authorized_json",
   "get_group_ids_from_group_desc", "deplural", "camel_case_keys",
   "extract_numerical_factor", "DHIS2Parser", "main"}

\* the attributes DHIS2Parser.__init__ sets on the instance
InstanceAttrs ==
  {"values", "group", "group_desc", "_auth", "_indic_to_desc", "_vbl_names",
   "_element_type", "_element_ids", "_indicator_type_map"}

-----------------------------------------------------------------------------
(* The registry behind get_authorized_json.  reg maps an id to NoneV, to   *)
(* Some([coll, json]) or to NotJson: the collection that holds the object  *)
(* and its JSON record, a function from the keys present to their values.  *)
(* The answer for an id the registry does not hold is the JSON null; for   *)
(* an id at NotJson the body of the answer is not JSON.                    *)

JsonNull == NoneV
NotJson == [none |-> FALSE, text |-> <<"<">>]
IsFalsy(json) == DOMAIN json = {} \/ json = JsonNull
HasKey(json, key) == json # JsonNull /\ key \in DOMAIN json

\* lines 101-105: the request can be built when auth_dict has a token, or a
\* username and a password; otherwise line 105 raises KeyError
can_authorize(auth_dict) ==
  \/ "token" \in DOMAIN auth_dict
  \/ {"username", "password"} \subseteq DOMAIN auth_dict

\* url is <<collection, id>>, the two path segments after <baseUrl>/api/.
\* Lines 108-111: when json.loads fails on the body, the handler calls
\* json.loads on a dict, which raises TypeError.
get_authorized_json(auth_dict, reg, url) ==
  LET coll == url[1]
      id == url[2]
  IN IF ~can_authorize(auth_dict) THEN Exc("KeyError")
     ELSE IF id \notin DOMAIN reg \/ IsNone(reg[id]) THEN Ret(JsonNull)
     ELSE IF DOMAIN reg[id] = DOMAIN NotJson THEN Exc("TypeError")
     ELSE IF coll = S_identifiableObjects
       THEN Ret([href |-> <<reg[id].v.coll, id>>])
     ELSE IF coll = reg[id].v.coll THEN Ret(reg[id].v.json)
     ELSE Ret(JsonNull)

\* href.split('/')[-2]
HrefType(href) == href[Len(href) - 1]

deplural(in_string) ==
  IF IsNone(in_string) \/ in_string.v = <<>> THEN Ret(<<>>)
  ELSE IF "string" \notin ModuleGlobals THEN Exc("NameError")
  ELSE LET s == in_string.v
       IN IF s[Len(s)] = "s" /\ s[Len(s) - 1] # "s"
            THEN Ret(SubSeq(s, 1, Len(s) - 1))
          ELSE Ret(s)

\* <<json, validation code, element type>>, or the exception of a request
get_unknown_type_metadata(auth_dict, reg, element_id) ==
  LET idobj_metadata == get_authorized_json(auth_dict, reg, <<S_identifiableObjects, element_id>>)
  IN IF Raised(idobj_metadata) THEN idobj_metadata
     ELSE IF IsFalsy(idobj_metadata.val) \/ ~HasKey(idobj_metadata.val, "href")
       THEN Ret(<<JsonNull, "VBL_NOT_IN_REG", NoneV>>)
     ELSE LET elt_type == HrefType(idobj_metadata.val.href)
              md == get_authorized_json(auth_dict, reg, <<elt_type, element_id>>)
          IN IF Raised(md) THEN md
             ELSE Ret(<<md.val, "NO_ERRORS", Some(elt_type)>>)

get_known_type_metadata(auth_dict, reg, element_id, etype) ==
  LET md == get_authorized_json(auth_dict, reg, <<etype.v, element_id>>)
  IN IF Raised(md) THEN md ELSE Ret(<<md.val, "NO_ERRORS", etype>>)

InSeq(x, seq) == \E k \in DOMAIN seq : seq[k] = x

\* A cache entry: [display name, lookup error code, variable type]
VblEntry(name, code, type) == [name |-> name, code |-> code, type |-> type]

\* variable_entry as it would be if the entry for missing metadata were
\* written with the code NO_ERRORS the class starts from
variable_entry_losing_code(vbl_json, valid_code, vbl_type) ==
  IF Raised(vbl_type) THEN vbl_type
  ELSE IF IsFalsy(vbl_json)
    THEN Ret(VblEntry(NoneV, "NO_ERRORS", vbl_type.val))
  ELSE IF HasKey(vbl_json, "displayName") /\ vbl_json.displayName # <<>>
    THEN Ret(VblEntry(Some(vbl_json.displayName), "NO_ERRORS", vbl_type.val))
  ELSE Ret(VblEntry(NoneV, "VBL_NO_METADATA", vbl_type.val))

\* lines 312-327: the entry for the metadata found, vbl_type being the
\* outcome of deplural
variable_entry(vbl_json, valid_code, vbl_type) ==
  IF Raised(vbl_type) THEN vbl_type
  ELSE IF IsFalsy(vbl_json)
    THEN Ret(VblEntry(NoneV,
                      IF valid_code = "NO_ERRORS" THEN "VBL_NO_METADATA"
                      ELSE valid_code,
                      vbl_type.val))
  ELSE IF HasKey(vbl_json, "displayName") /\ vbl_json.displayName # <<>>
    THEN Ret(VblEntry(Some(vbl_json.displayName), "NO_ERRORS", vbl_type.val))
  ELSE Ret(VblEntry(NoneV, "VBL_NO_METADATA", vbl_type.val))

\* _get_variable_name past the cache test: the registry lookup and the
\* entry it writes; Exc when the call raises before writing.
lookup_variable(auth_dict, reg, etype, eids, vbl_id) ==
  LET md == IF InSeq(vbl_id, eids)
              THEN get_known_type_metadata(auth_dict, reg, vbl_id, etype)
            ELSE get_unknown_type_metadata(auth_dict, reg, vbl_id)
  IN IF Raised(md) THEN md
     ELSE variable_entry(md.val[1], md.val[2], deplural(md.val[3]))

\* if vbl_id in self._vbl_names
cache_hit(names, vbl_id) == vbl_id \in DOMAIN names

\* cache_put as it would be if the write replaced the dictionary
cache_put_forgetting(names, vbl_id, entry) == [k \in {vbl_id} |-> entry]

\* self._vbl_names[vbl_id] = entry
cache_put(names, vbl_id, entry) ==
  [k \in DOMAIN names \cup {vbl_id} |->
     IF k = vbl_id THEN entry ELSE names[k]]

\* lines 320-329: the entry is written and read back, unless the lookup r
\* raised
after_lookup(names, vbl_id, r) ==
  IF Raised(r) THEN [ret |-> r, names |-> names]
  ELSE [ret |-> Ret(r.val), names |-> cache_put(names, vbl_id, r.val)]

\* _get_variable_name run without interruption: its outcome, the cache it
\* leaves and whether it queried the registry
get_variable_name(auth_dict, reg, etype, eids, names, vbl_id) ==
  IF cache_hit(names, vbl_id)
    THEN [ret |-> Ret(names[vbl_id]), names |-> names,
          queried |-> FALSE]
  ELSE LET g == after_lookup(names, vbl_id,
                             lookup_variable(auth_dict, reg, etype, eids, vbl_id))
       IN [ret |-> g.ret, names |-> g.names,
           queried |-> can_authorize(auth_dict)]

-----------------------------------------------------------------------------
(* _parse_formula: the tokens of total_regex *)

vbl_prefix_chars == {"#", "A", "C", "D", "I", "R"}
vbl_part_chars == WordChars \cup {"|", "*"}

\* ([#ACDIR]|OUG) at position i: the length of the prefix, 0 for no match
vbl_prefix_len(s, i) ==
  IF i <= Len(s) /\ s[i] \in vbl_prefix_chars THEN 1
  ELSE IF StartsAt(s, i, S_OUG) THEN 3 ELSE 0

\* ([\w|\*]*) from position b: the end (exclusive) of the group
vbl_part_end(s, b) == RunEnd(s, b, vbl_part_chars)

\* \.? at position e: the position after it
vbl_skip_dot(s, e) == IF e <= Len(s) /\ s[e] = "." THEN e + 1 ELSE e

\* the match with prefix length pl whose groups 2, 3, 4 start at b, p1, p2
vbl_match_parts(s, i, pl, b, p1, p2) ==
  IF pl > 0 /\ i + pl <= Len(s) /\ s[i + pl] = "{"
       /\ vbl_part_end(s, p2) <= Len(s) /\ s[vbl_part_end(s, p2)] = "}"
    THEN Some([text |-> SubSeq(s, i, vbl_part_end(s, p2)),
               g2 |-> SubSeq(s, b, vbl_part_end(s, b) - 1),
               g3 |-> SubSeq(s, p1, vbl_part_end(s, p1) - 1),
               g4 |-> SubSeq(s, p2, vbl_part_end(s, p2) - 1)])
  ELSE NoneV

vbl_match_from(s, i, pl, b, p1) ==
  vbl_match_parts(s, i, pl, b, p1, vbl_skip_dot(s, vbl_part_end(s, p1)))

\* vbl_regex at position i: the whole match and its groups 2, 3, 4
vbl_match_at(s, i) ==
  vbl_match_from(s, i, vbl_prefix_len(s, i), i + vbl_prefix_len(s, i) + 1,
                 vbl_skip_dot(s, vbl_part_end(s, i + vbl_prefix_len(s, i) + 1)))

oper_match_at(s, i) ==
  IF i <= Len(s) /\ s[i] \in {"+", "-", "/", "*"} THEN Some([text |-> <<s[i]>>])
  ELSE NoneV

\* number_regex (\d+\.\d+) at position i
number_match_at(s, i) ==
  LET e1 == RunEnd(s, i, Digits)
      e2 == RunEnd(s, e1 + 1, Digits)
  IN IF e1 > i /\ e1 <= Len(s) /\ s[e1] = "." /\ e2 > e1 + 1
       THEN Some([text |-> SubSeq(s, i, e2 - 1)])
     ELSE NoneV

\* total_regex at position i: the alternatives in the order of the pattern
total_match_at(s, i) ==
  first_match(vbl_match_at(s, i),
              first_match(oper_match_at(s, i), number_match_at(s, i)))

RECURSIVE finditer_total(_, _)

\* the terms from position i on, m being the match at i
finditer_from(s, i, m) ==
  IF IsNone(m) THEN finditer_total(s, i + 1)
  ELSE <<m.v.text>> \o finditer_total(s, i + Len(m.v.text))

\* re.finditer(total_regex, formula): the text of each term, left to right
finditer_total(s, i) ==
  IF i > Len(s) THEN <<>> ELSE finditer_from(s, i, total_match_at(s, i))

\* str.isdigit(): decimal digits and the superscripts 178, 179 and 185
isdigit(s) ==
  /\ s # <<>>
  /\ \A k \in DOMAIN s : s[k] \in Digits \cup {chr[179], chr[180], chr[186]}

Finding(code, args) == [code |-> code, args |-> args]

-----------------------------------------------------------------------------
(* _parse_formula: the loop over the terms.  The calls of                   *)
(* _get_variable_name are the only points where the loop waits for the     *)
(* registry, so the loop is written as a function of the outcomes of the   *)
(* calls made so far (answers): it says which id it asks for next, or how   *)
(* it ends.                                                                 *)

\* after_resolve as it would be if the values of a variable's finding
\* always held the variable type
after_resolve_always_with_type(st, id, entry, quantity_type) ==
  LET name == IF IsNone(entry.name) \/ entry.name.v = <<>> THEN S_unknown
              ELSE entry.name.v
      fresh == ~InSeq(id, st.vbls_seen)
  IN [st EXCEPT
        !.calculation = @ \o <<" ">> \o name,
        !.vbls_seen = IF fresh THEN Append(@, id) ELSE @,
        !.vvalues = IF fresh /\ entry.code # "NO_ERRORS"
                      THEN Append(@, Finding(entry.code,
                                             <<id, entry.type, quantity_type>>))
                    ELSE @,
        !.used = @ + 1]

\* after_resolve as it would be without the test of vbls_seen: every
\* occurrence of a variable gets its validation value
after_resolve_every_occurrence(st, id, entry, quantity_type) ==
  LET name == IF IsNone(entry.name) \/ entry.name.v = <<>> THEN S_unknown
              ELSE entry.name.v
      vvals == IF entry.type # <<>> THEN <<id, entry.type, quantity_type>>
               ELSE <<id, quantity_type>>
  IN [st EXCEPT
        !.calculation = @ \o <<" ">> \o name,
        !.vbls_seen = Append(@, id),
        !.vvalues = IF entry.code # "NO_ERRORS"
                      THEN Append(@, Finding(entry.code, vvals))
                    ELSE @,
        !.used = @ + 1]

\* lines 371-377, and the same for the two option combos: the name goes
\* into the calculation, and a variable not seen before in this formula
\* gets its validation value
after_resolve(st, id, entry, quantity_type) ==
  LET name == IF IsNone(entry.name) \/ entry.name.v = <<>> THEN S_unknown
              ELSE entry.name.v
      fresh == ~InSeq(id, st.vbls_seen)
      vvals == IF entry.type # <<>> THEN <<id, entry.type, quantity_type>>
               ELSE <<id, quantity_type>>
  IN [st EXCEPT
        !.calculation = @ \o <<" ">> \o name,
        !.vbls_seen = IF fresh THEN Append(@, id) ELSE @,
        !.vvalues = IF fresh /\ entry.code # "NO_ERRORS"
                      THEN Append(@, Finding(entry.code, vvals))
                    ELSE @,
        !.used = @ + 1]

\* ctx holds what the loop does not change: [terms, answers, number,
\* quantity_type].  The loop is at part `part` (group 2, 3 or 4 of
\* vbl_regex) of term ti; elt_type is the type of the term's group 2.
RECURSIVE parse_terms(_, _, _, _, _)
RECURSIVE resolve_part(_, _, _, _, _, _)

\* one call of _get_variable_name(id), then on to the next part
resolve_part(ctx, ti, part, st, elt_type, id) ==
  IF st.used = Len(ctx.answers) THEN [status |-> "need", id |-> id]
  ELSE IF Raised(ctx.answers[st.used + 1])
    THEN [status |-> "raise", exc |-> ctx.answers[st.used + 1].exc]
  ELSE IF part = 4
    THEN parse_terms(ctx, ti + 1, 2,
                     after_resolve(st, id, ctx.answers[st.used + 1].val,
                                   ctx.quantity_type),
                     <<>>)
  ELSE parse_terms(ctx, ti, part + 1,
                   after_resolve(st, id, ctx.answers[st.used + 1].val,
                                 ctx.quantity_type),
                   IF part = 2 THEN ctx.answers[st.used + 1].val.type
                   ELSE elt_type)

\* lines 366-403: a term that vbl_regex matches, elements being the match
parse_vbl(ctx, ti, part, st, elt_type, elements) ==
  IF part = 2
    THEN resolve_part(ctx, ti, 2, st, elt_type, elements.g2)
  ELSE IF part = 3
    THEN IF elements.g3 # <<>> /\ elements.g3 # <<"*">>
           THEN IF /\ elt_type = <<"d","a","t","a","S","e","t">>
                   /\ InSeq("_", elements.g3)
                  THEN parse_terms(ctx, ti, 4,
                         [st EXCEPT !.calculation = @ \o <<" ">> \o elements.g3],
                         elt_type)
                ELSE resolve_part(ctx, ti, 3, st, elt_type, elements.g3)
         ELSE parse_terms(ctx, ti, 4, st, elt_type)
  ELSE IF elements.g4 # <<>> /\ elements.g4 # <<"*">>
    THEN resolve_part(ctx, ti, 4, st, elt_type, elements.g4)
  ELSE parse_terms(ctx, ti + 1, 2, st, <<>>)

\* lines 357-364: the term is told apart
parse_term(ctx, ti, part, st, elt_type, term) ==
  IF ~IsNone(number_match_at(term, 1)) \/ ~IsNone(oper_match_at(term, 1))
    THEN parse_terms(ctx, ti + 1, 2,
           [st EXCEPT
              !.calculation = @ \o <<" ">> \o term,
              !.number_seen =
                 @ \/ (isdigit(term) /\ Some(StrToInt(term)) = ctx.number)],
           <<>>)
  ELSE IF IsNone(vbl_match_at(term, 1)) THEN parse_terms(ctx, ti + 1, 2, st, <<>>)
  ELSE parse_vbl(ctx, ti, part, st, elt_type, vbl_match_at(term, 1).v)

parse_terms(ctx, ti, part, st, elt_type) ==
  IF ti > Len(ctx.terms) THEN [status |-> "done", st |-> st]
  ELSE parse_term(ctx, ti, part, st, elt_type, ctx.terms[ti])

\* lines 404-409, r being how the loop ended
formula_result(r, number, quantity_type) ==
  IF r.status # "done" THEN r
  ELSE [status |-> "done", used |-> r.st.used,
        calculation |-> r.st.calculation,
        vvalues |->
          IF ~r.st.number_seen
            THEN Append(r.st.vvalues,
                        Finding("FORMULA_NUMBER_MISSING",
                                <<quantity_type, IntToStr(number.v)>>))
          ELSE r.st.vvalues]

\* _parse_formula given the outcomes of its first Len(answers) calls of
\* _get_variable_name:
\*   [status |-> "need", id]                  it calls _get_variable_name(id)
\*   [status |-> "raise", exc]                a call raised
\*   [status |-> "done", calculation, vvalues] it returns, after `used` calls
parse_formula(formula, number, quantity_type, answers) ==
  formula_result(parse_terms([terms |-> finditer_total(formula, 1),
                              answers |-> answers, number |-> number,
                              quantity_type |-> quantity_type],
                             1, 2,
                             [calculation |-> <<>>, vvalues |-> <<>>,
                              vbls_seen |-> <<>>,
                              number_seen |-> IsNone(number), used |-> 0],
                             <<>>),
                 number, quantity_type)

\* A run w is [names, asked, queried, answers]: the cache, the ids
\* _get_variable_name was called with, those the registry was asked for, and
\* the outcomes of the calls so far.
NewRun(names) ==
  [names |-> names, asked |-> <<>>, queried |-> <<>>, answers |-> <<>>]

\* the run after a call of _get_variable_name(id)
call_get_variable_name(auth_dict, reg, etype, eids, w, id) ==
  LET g == get_variable_name(auth_dict, reg, etype, eids, w.names, id)
  IN [names |-> g.names,
      asked |-> Append(w.asked, id),
      queried |-> IF g.queried THEN Append(w.queried, id) ELSE w.queried,
      answers |-> Append(w.answers, g.ret)]

RECURSIVE run_parse_formula(_, _, _, _, _, _, _, _)

\* r is what _parse_formula does after the calls of the run w
run_parse_step(auth_dict, reg, etype, eids, w, formula, number, quantity_type, r) ==
  IF r.status # "need"
    THEN [result |-> r, names |-> w.names, asked |-> w.asked,
          queried |-> w.queried, answers |-> w.answers]
  ELSE run_parse_formula(auth_dict, reg, etype, eids,
                         call_get_variable_name(auth_dict, reg, etype, eids, w, r.id),
                         formula, number, quantity_type)

\* _parse_formula run without interruption on a parser whose cache is
\* w.names: its outcome, the cache it leaves and the ids it queried
run_parse_formula(auth_dict, reg, etype, eids, w, formula, number, quantity_type) ==
  run_parse_step(auth_dict, reg, etype, eids, w, formula, number, quantity_type,
                 parse_formula(formula, number, quantity_type, w.answers))

-----------------------------------------------------------------------------
(* _get_indicator_description *)

construct_display_url(base_url, etype, element_id, friendly_name) ==
  LET output_url == <<"h","t","t","p","s",":","/","/">> \o base_url
                      \o <<"/","a","p","i","/">> \o etype \o <<"/">>
                      \o element_id
  IN <<output_url,
       <<"=","H","Y","P","E","R","L","I","N","K","(">> \o <<"\"">> \o output_url
         \o <<"\"", ";", "\"">>
         \o friendly_name \o <<"\"", ")">>>>

\* { key: '' for key in fieldnames } with the id and an empty list of
\* validation values
EmptyValues(indicator_id) ==
  [group_description |-> <<>>, indicator_id |-> indicator_id,
   indicator_name |-> <<>>, numerator_description |-> <<>>,
   denominator_description |-> <<>>, calculation |-> <<>>,
   validation_values |-> <<>>]

AddFinding(findings, cond, code, args) ==
  IF cond THEN Append(findings, Finding(code, args)) ELSE findings

\* `if n == 1: n = None` for an optional integer
not_one(number) == IF number = Some(1) THEN NoneV ELSE number

\* lines 426-434, 452-468, 483-495: the texts read from the indicator's
\* JSON, with the values the source falls back on
display_name_of(indicator_json) ==
  IF HasKey(indicator_json, "displayName") THEN indicator_json.displayName
  ELSE <<>>

numerator_description_of(indicator_json) ==
  IF HasKey(indicator_json, "numeratorDescription")
    THEN indicator_json.numeratorDescription
  ELSE S_unknown

has_denominator_description(indicator_json) ==
  /\ HasKey(indicator_json, "denominatorDescription")
  /\ indicator_json.denominatorDescription # <<>>

denominator_description_of(indicator_json) ==
  IF has_denominator_description(indicator_json)
    THEN indicator_json.denominatorDescription
  ELSE S_one

numerator_of(indicator_json) ==
  IF HasKey(indicator_json, "numerator") THEN indicator_json.numerator
  ELSE S_unknown

denominator_of(indicator_json) ==
  IF HasKey(indicator_json, "denominator") THEN indicator_json.denominator
  ELSE S_unknown

\* lines 436-441
indicator_type_number_of(indicator_json, type_map) ==
  IF HasKey(indicator_json, "indicatorType")
       /\ "id" \in DOMAIN indicator_json.indicatorType
       /\ indicator_json.indicatorType.id \in DOMAIN type_map
    THEN type_map[indicator_json.indicatorType.id]
  ELSE 1

\* the findings of lines 426-507, in the order the source appends them
head_findings(indicator_json, type_map, indicator_id, indicator_number, numerator_number, denominator_number) ==
  LET v1 == AddFinding(<<>>, ~HasKey(indicator_json, "displayName"),
                       "INDIC_NO_DISPLAY_NAME", <<indicator_id>>)
      v2 == AddFinding(v1, ~HasKey(indicator_json, "numeratorDescription"),
                       "NUMER_NO_DESC", <<>>)
      v3 == AddFinding(v2, ~has_denominator_description(indicator_json),
                       "DENOM_NO_DESC", <<>>)
      v4 == AddFinding(v3,
                       /\ ~IsNone(indicator_number)
                       /\ indicator_number.v # 0
                       /\ indicator_number # denominator_number
                       /\ indicator_number # numerator_number
                       /\ indicator_number.v
                            # indicator_type_number_of(indicator_json, type_map),
                       "INDIC_NUMBER_MISSING", <<IntToStr(indicator_number.v)>>)
      v5 == AddFinding(v4, ~HasKey(indicator_json, "numerator"),
                       "NUMER_NO_FORMULA", <<>>)
      v6 == AddFinding(v5, ~HasKey(indicator_json, "denominator"),
                       "DENOM_NO_FORMULA", <<>>)
      v7 == AddFinding(v6,
                       (denominator_of(indicator_json) = S_one)
                         # (denominator_description_of(indicator_json) = S_one),
                       "DENOM_FORMULA_NO_MATCH", <<>>)
  IN AddFinding(v7,
                numerator_of(indicator_json) = denominator_of(indicator_json),
                "NUMER_EQS_DENOM", <<>>)

\* the values before the formulas are parsed, urls being what
\* construct_display_url returns
head_values(indicator_json, indicator_id, urls, findings) ==
  [group_description |-> <<>>, indicator_id |-> indicator_id,
   indicator_name |-> display_name_of(indicator_json),
   numerator_description |-> numerator_description_of(indicator_json),
   denominator_description |-> denominator_description_of(indicator_json),
   calculation |-> <<>>, validation_values |-> findings,
   indicator_url |-> urls[1], display_url |-> urls[2]]

\* lines 426-507, given the outcomes of the three calls of
\* extract_numerical_factor
head_numbers(indicator_json, type_map, base_url, indicator_id, x_indic, x_numer, x_denom) ==
  IF Raised(x_indic) THEN x_indic
  ELSE IF Raised(x_numer) THEN x_numer
  ELSE IF Raised(x_denom) THEN x_denom
  ELSE Ret([short |-> FALSE,
            values |->
              head_values(indicator_json, indicator_id,
                          construct_display_url(base_url, S_indicators,
                                                indicator_id,
                                                display_name_of(indicator_json)),
                          head_findings(indicator_json, type_map, indicator_id,
                                        not_one(x_indic.val), x_numer.val,
                                        not_one(x_denom.val))),
            numerator |-> numerator_of(indicator_json),
            denominator |-> denominator_of(indicator_json),
            numerator_number |-> x_numer.val,
            denominator_number |-> not_one(x_denom.val)])

\* lines 416-507 for the JSON the registry answered
head_of_json(indicator_json, type_map, base_url, indicator_id) ==
  IF IsFalsy(indicator_json)
    THEN Ret([short |-> TRUE,
              values |-> [EmptyValues(indicator_id) EXCEPT
                            !.validation_values =
                               <<Finding("INDIC_NOT_IN_REG", <<indicator_id>>)>>]])
  ELSE head_numbers(indicator_json, type_map, base_url, indicator_id,
         extract_numerical_factor(display_name_of(indicator_json), TRUE),
         extract_numerical_factor(numerator_description_of(indicator_json), TRUE),
         extract_numerical_factor(denominator_description_of(indicator_json), TRUE))

\* Lines 412-507: everything before the two formulas are parsed.
\*   Ret([short |-> TRUE, values])  the indicator is not in the registry
\*   Ret([short |-> FALSE, values, numerator, denominator, numbers])
\*   Exc(e)                         the request or extract_numerical_factor
\*                                  raised
indicator_head(auth_dict, reg, type_map, base_url, indicator_id) ==
  LET md == get_known_type_metadata(auth_dict, reg, indicator_id, Some(S_indicators))
  IN IF Raised(md) THEN md
     ELSE head_of_json(md.val[1], type_map, base_url, indicator_id)

\* describe_denominator as it would be if the denominator's validation
\* values were added before the numerator's
describe_denominator_values_first(h, numer, denom) ==
  IF denom.status # "done" THEN denom
  ELSE [status |-> "done",
        values |->
          [h.values EXCEPT
             !.calculation = <<"{">> \o numer.calculation
                               \o <<" ", "}", " ", "/", " ", "{">>
                               \o denom.calculation \o <<" ", "}">>,
             !.validation_values = @ \o denom.vvalues \o numer.vvalues]]

\* lines 523-530: the denominator is parsed, the description is complete
describe_denominator(h, numer, denom) ==
  IF denom.status # "done" THEN denom
  ELSE [status |-> "done",
        values |->
          [h.values EXCEPT
             !.calculation = <<"{">> \o numer.calculation
                               \o <<" ", "}", " ", "/", " ", "{">>
                               \o denom.calculation \o <<" ", "}">>,
             !.validation_values = @ \o numer.vvalues \o denom.vvalues]]

\* lines 512-521: the numerator is parsed; the denominator's calls of
\* _get_variable_name are those after the numerator's
describe_numerator(h, numer, answers) ==
  IF numer.status # "done" THEN numer
  ELSE describe_denominator(h, numer,
         parse_formula(h.denominator, h.denominator_number,
                       <<"d","e","n","o","m","i","n","a","t","o","r">>,
                       SubSeq(answers, numer.used + 1, Len(answers))))

describe_from_head(head, answers) ==
  IF Raised(head) THEN [status |-> "raise", exc |-> head.exc]
  ELSE IF head.val.short THEN [status |-> "done", values |-> head.val.values]
  ELSE describe_numerator(head.val,
         parse_formula(head.val.numerator, head.val.numerator_number,
                       S_numerator, answers),
         answers)

\* _get_indicator_description given the outcomes of its first Len(answers)
\* calls of _get_variable_name (through _parse_formula):
\*   [status |-> "need", id]       it calls _get_variable_name(id)
\*   [status |-> "raise", exc]     it raises
\*   [status |-> "done", values]   it returns values
get_indicator_description(auth_dict, reg, type_map, base_url, indicator_id, answers) ==
  describe_from_head(indicator_head(auth_dict, reg, type_map, base_url, indicator_id),
                     answers)

RECURSIVE run_indicator_description(_, _, _, _, _, _, _, _)

\* r is what _get_indicator_description does after the calls of the run w
run_description_step(auth_dict, reg, type_map, base, etype, eids, w, indicator_id, r) ==
  IF r.status # "need"
    THEN [result |-> r, names |-> w.names, queried |-> w.queried]
  ELSE run_indicator_description(auth_dict, reg, type_map, base, etype, eids,
         call_get_variable_name(auth_dict, reg, etype, eids, w, r.id), indicator_id)

\* _get_indicator_description run without interruption
run_indicator_description(auth_dict, reg, type_map, base, etype, eids, w, indicator_id) ==
  run_description_step(auth_dict, reg, type_map, base, etype, eids, w, indicator_id,
    get_indicator_description(auth_dict, reg, type_map, base, indicator_id, w.answers))

-----------------------------------------------------------------------------
(* DHIS2Parser.__init__ and set_group_id *)

NoTypes == [k \in {} |-> 0]

\* _get_indicator_type_map: the request of line 227 is for the collection
\* itself, url <<indicatorTypes, <<>>>>; then line 229 reads the local name
\* indic_type, which only the loop of line 232 binds: the names bound at
\* line 229 are self, it_url and it_metadata.
get_indicator_type_map(auth_dict, reg) ==
  LET it_metadata == get_authorized_json(auth_dict, reg, <<<<"i","n","d","i","c","a","t","o","r","T","y","p","e","s">>, <<>>>>)
  IN IF Raised(it_metadata) THEN it_metadata
     ELSE IF "indic_type" \notin {"self", "it_url", "it_metadata"} THEN Exc("UnboundLocalError")
     ELSE Ret(NoTypes)

\* DHIS2Parser(auth_dict): the handler `except err:` of line 220 reads the
\* global name err to match the exception that _get_indicator_type_map raised.
construct_parser(auth_dict, reg) ==
  LET r == get_indicator_type_map(auth_dict, reg)
  IN IF "baseUrl" \notin DOMAIN auth_dict THEN Exc("ValueError")
     ELSE IF ~Raised(r) THEN r
     ELSE IF "err" \notin ModuleGlobals THEN Exc("NameError")
     ELSE r

\* re.IGNORECASE, which line 274 passes as the count of re.sub
RE_IGNORECASE == 2

\* re.sub(pat, '', s, count)
RECURSIVE re_sub_remove(_, _, _, _)
re_sub_remove(pat, s, i, count) ==
  IF i > Len(s) THEN <<>>
  ELSE IF count > 0 /\ StartsAt(s, i, pat)
    THEN re_sub_remove(pat, s, i + Len(pat), count - 1)
  ELSE <<s[i]>> \o re_sub_remove(pat, s, i + 1, count)

\* The lists of a JSON object are kept under the key "lists", by the name
\* of the list: group_metadata[self._element_type] is json.lists[etype].

\* set_group_id: self is [group, group_desc, element_type, element_ids];
\* the fields it leaves and whether it returns or raises
set_group_id(auth_dict, reg, self, group_id) ==
  LET s1 == [self EXCEPT !.group = Some(group_id)]
      parsed_metadata == get_authorized_json(auth_dict, reg, <<S_identifiableObjects, group_id>>)
      group_type == HrefType(parsed_metadata.val.href)
      group_metadata == get_authorized_json(auth_dict, reg, <<group_type, group_id>>)
      etype == re_sub_remove(<<"G","r","o","u","p">>, group_type, 1,
                            RE_IGNORECASE)
      s2 == [s1 EXCEPT !.group_desc = Some(group_metadata.val.displayName),
                       !.element_type = Some(etype)]
  IN IF Raised(parsed_metadata)
       THEN [self |-> s1, ret |-> parsed_metadata]
     ELSE IF ~HasKey(parsed_metadata.val, "href")
       THEN [self |-> s1, ret |-> Exc("ValueError")]
     ELSE IF Raised(group_metadata)
       THEN [self |-> s1, ret |-> group_metadata]
     ELSE IF group_metadata.val = JsonNull
       THEN [self |-> s1, ret |-> Exc("TypeError")]
     ELSE IF ~HasKey(group_metadata.val, "displayName")
       THEN [self |-> s1, ret |-> Exc("ValueError")]
     ELSE IF ~(HasKey(group_metadata.val, "lists")
                 /\ etype \in DOMAIN group_metadata.val.lists)
       THEN [self |-> s2, ret |-> Exc("KeyError")]
     ELSE [self |-> [s2 EXCEPT !.element_ids =
                       [k \in DOMAIN group_metadata.val.lists[etype] |->
                          group_metadata.val.lists[etype][k].id]],
           ret |-> Ret(NoneV)]

-----------------------------------------------------------------------------
(* output_all_indicators *)

NUM_THREADS == 10

\* the record of an id for which _indic_to_desc has no entry
ParseFailedValues(indicator_id) ==
  [group_description |-> <<>>, indicator_id |-> <<>>,
   indicator_name |-> <<>>, numerator_description |-> <<>>,
   denominator_description |-> <<>>, calculation |-> <<>>,
   validation_values |-> <<Finding("INDIC_PARSE_FAILED", <<indicator_id>>)>>]

WithGroupDescription(values, desc) ==
  [k \in DOMAIN values |->
     IF k = "group_description" THEN desc ELSE values[k]]

\* Lines 548-558, after the executor has shut down: the loop reads
\* self.element_ids and self.indic_to_desc.
assemble_output(eids, descs, desc) ==
  IF "element_ids" \notin InstanceAttrs THEN Exc("AttributeError")
  ELSE IF eids # <<>> /\ "indic_to_desc" \notin InstanceAttrs
    THEN Exc("AttributeError")
  ELSE Ret([k \in DOMAIN eids |->
              WithGroupDescription(
                IF eids[k] \in DOMAIN descs THEN descs[eids[k]]
                ELSE ParseFailedValues(eids[k]),
                desc.v)])

-----------------------------------------------------------------------------
(* Bounded inputs of the pure functions *)

MaxFill == 3
MaxPieces == 3

RECURSIVE SeqsUpTo(_, _)
SeqsUpTo(S, n) ==
  IF n = 0 THEN {<<>>}
  ELSE LET prev == SeqsUpTo(S, n - 1)
       IN prev \cup {Append(q, x) : q \in {p \in prev : Len(p) = n - 1}, x \in S}

TextPieces ==
  { <<"p","e","r">>, <<"p","o","u","r">>, <<"p","a","r">>, <<"*">>, <<"/">>,
    <<"1">>, <<"0">>, <<" ">>, <<"\r">>, <<chr[161]>>, <<",">>, <<"x">>,
    <<"-">>,
    <<"t","e","n">>, <<"t","h","o","u","s","a","n","d">>,
    <<"p","e","r","c","e","n","t">> }

-----------------------------------------------------------------------------
(* Registries *)

S_Cases == <<"C","a","s","e","s">>
S_Total == <<"T","o","t","a","l">>
S_dataElements == <<"d","a","t","a","E","l","e","m","e","n","t","s">>
S_categoryOptionCombos ==
  <<"c","a","t","e","g","o","r","y","O","p","t","i","o","n","C","o","m","b","o","s">>

id_a == <<"a">>
id_b == <<"b">>

Obj(coll, json) == Some([coll |-> coll, json |-> json])

\* what the registry may hold for the variable ids a and b
VarObjects ==
  [a : {NoneV,
        Obj(S_dataElements, [id |-> id_a, displayName |-> S_Cases]),
        Obj(S_dataElements, [id |-> id_a])},
   b : {NoneV,
        Obj(S_categoryOptionCombos, [id |-> id_b, displayName |-> S_Total]),
        Obj(<<"d","a","t","a","S","e","t","s">>, [id |-> id_b, displayName |-> <<>>])}]

VarRegistry(vo) == (id_a :> vo.a) @@ (id_b :> vo.b)

\* a and b as the round trip needs them
NamedVars ==
  [a |-> Obj(S_dataElements, [id |-> id_a, displayName |-> S_Cases]),
   b |-> Obj(S_categoryOptionCombos, [id |-> id_b, displayName |-> S_Total])]

base_url == <<"h">>

\* auth as lines 568-572 build it: from the parameters of a country (base
\* URL, username and password, or what the file holds of them), --base_url
\* and --auth_token
TokenAuth == [baseUrl |-> base_url, token |-> <<"k">>]
AuthDicts ==
  { TokenAuth,
    [baseUrl |-> base_url, username |-> <<"u">>, password |-> <<"p">>],
    [baseUrl |-> base_url, username |-> <<"u">>],
    [baseUrl |-> base_url],
    [token |-> <<"k">>] }

\* <<auth, registry>> for the calls of the parser's methods: every registry
\* of a and b with a token, one whose answer for a is not JSON, and the
\* other auth dictionaries that hold a base URL
VarSystems ==
  {<<TokenAuth, VarRegistry(vo)>> : vo \in VarObjects}
    \cup {<<TokenAuth, VarRegistry([NamedVars EXCEPT !.a = NotJson])>>}
    \cup {<<a, VarRegistry(NamedVars)>> :
             a \in {d \in AuthDicts : "baseUrl" \in DOMAIN d}}

\* {}, the dictionary without a key
EmptyDict == [k \in {} |-> NoneV]

\* the cache after _get_variable_name has been called for each of ids
RECURSIVE WarmCache(_, _, _, _, _, _)
WarmCache(auth_dict, reg, etype, eids, cache, ids) ==
  IF ids = <<>> THEN cache
  ELSE WarmCache(auth_dict, reg, etype, eids,
                 get_variable_name(auth_dict, reg, etype, eids, cache, Head(ids)).names,
                 Tail(ids))

CountQuery(q, id) ==
  [k \in DOMAIN q \cup {id} |->
     IF k \in DOMAIN q THEN (IF k = id THEN q[k] + 1 ELSE q[k]) ELSE 1]

RECURSIVE CountQueries(_, _)
CountQueries(q, ids) ==
  IF ids = <<>> THEN q ELSE CountQueries(CountQuery(q, Head(ids)), Tail(ids))

\* a parser on which set_group_id has not been called
NoGroup ==
  /\ group = NoneV
  /\ group_desc = NoneV
  /\ element_type = NoneV
  /\ element_ids = <<>>

\* no main is running: a method is called on a parser instance
MainIdle ==
  /\ mainpc = "idle"
  /\ batch = <<>>
  /\ gi = 1
  /\ output_values = <<>>
  /\ tasks = <<>>
  /\ indic_to_desc = EmptyDict

PureIdle ==
  /\ registry = VarRegistry([a |-> NoneV, b |-> NoneV])
  /\ auth = TokenAuth
  /\ NoGroup
  /\ MainIdle
  /\ indicator_type_map = NoTypes
  /\ vbl_names = EmptyDict
  /\ queries = EmptyDict

-----------------------------------------------------------------------------
(* SpecFormula: one call of DHIS2Parser._parse_formula *)

MaxTerms == 2

Braced(prefix, parts) == prefix \o <<"{">> \o parts \o <<"}">>

FormulaTerms ==
  {Braced(<<"#">>, p) : p \in {id_a, id_b}}
    \cup {Braced(<<"#">>, p \o <<".">> \o q) : p \in {id_a, id_b}, q \in {id_a}}
    \cup {Braced(<<"#">>, p \o <<".">> \o q \o <<".">> \o id_a) :
            p \in {id_a, id_b}, q \in {id_a, id_b}}
    \cup {Braced(<<"#">>, <<"a", ".", "b">>)}
    \cup {Braced(<<"#">>, <<"*">>), Braced(<<"#">>, <<"a",".","*">>),
          Braced(<<"#">>, <<"a",".","*",".","b">>), Braced(<<"#">>, <<>>),
          Braced(S_OUG, id_a), Braced(<<"R">>, <<"b",".","a","_","b">>),
          <<"+">>, <<"*">>, <<"1","0","0",".","0">>, <<"1","0","0">>,
          <<"1">>, <<"x">>}

InitFormula ==
  /\ \E sys \in VarSystems : auth = sys[1] /\ registry = sys[2]
  /\ NoGroup
  /\ MainIdle
  /\ \E warm \in {<<>>, <<id_a, id_b>>} :
       vbl_names = WarmCache(auth, registry, element_type, element_ids,
                             EmptyDict, warm)
  /\ queries = EmptyDict
  /\ indicator_type_map = NoTypes
  /\ pin \in [fn : {"_parse_formula"}, formula : {Flatten(ts) : ts \in SeqsUpTo(FormulaTerms, MaxTerms)},
              number : {NoneV, Some(100)},
              quantity_type : {S_numerator}]
  /\ pout = NotCalled

\* the call has run as r says: its outcome, the cache it leaves and the
\* registry queries it made
ParseFormulaRan(r) ==
  /\ pout' = [kind |-> r.result.status, result |-> r.result,
              asked |-> r.asked, answers |-> r.answers, before |-> vbl_names]
  /\ vbl_names' = r.names
  /\ queries' = CountQueries(queries, r.queried)

CallParseFormula ==
  /\ pin.fn = "_parse_formula"
  /\ pout = NotCalled
  /\ ParseFormulaRan(run_parse_formula(auth, registry, element_type, element_ids,
                                       NewRun(vbl_names), pin.formula,
                                       pin.number, pin.quantity_type))
  /\ UNCHANGED <<registry, auth, group, group_desc, element_type, element_ids,
                 indic_to_desc, indicator_type_map, main_vars, pin>>

SpecFormula == InitFormula /\ [][CallParseFormula]_vars

-----------------------------------------------------------------------------
(* SpecValidate: one call of DHIS2Parser._get_indicator_description *)

id_i == <<"i">>
id_t == <<"t">>

F_ab == Braced(<<"#">>, <<"a", ".", "b">>)

OptionsOf(S) == {NoneV} \cup {Some(x) : x \in S}

IndicatorJsons ==
  {[k \in {x \in DOMAIN f : ~IsNone(f[x])} |-> f[k].v] :
     f \in [id : {Some(id_i)},
            displayName : OptionsOf({<<"x">>, <<"p","e","r","1","0">>, <<"1","*">>}),
            numeratorDescription : OptionsOf({<<"n">>, <<"*","1","0">>}),
            denominatorDescription :
              OptionsOf({<<>>, S_one, <<"p","e","r","1","0">>, <<"d">>}),
            numerator :
              OptionsOf({F_ab,
                         Braced(<<"#">>, id_a)
                           \o <<" ", "*", " ", "1", "0", ".", "0">>}),
            denominator : OptionsOf({S_one, F_ab, Braced(<<"#">>, id_b)}),
            indicatorType : OptionsOf({[id |-> id_t]})]}

InitValidate ==
  /\ \/ \E sys \in VarSystems, ind \in {NoneV} \cup {Obj(S_indicators, j) : j \in IndicatorJsons} :
          /\ auth = sys[1]
          /\ registry = sys[2] @@ (id_i :> ind)
     \/ /\ auth = TokenAuth
        /\ registry = VarRegistry(NamedVars) @@ (id_i :> NotJson)
  /\ NoGroup
  /\ MainIdle
  /\ vbl_names = EmptyDict
  /\ queries = EmptyDict
  /\ indicator_type_map \in {NoTypes, (id_t :> 10)}
  /\ pin = [fn |-> "_get_indicator_description", indicator_id |-> id_i]
  /\ pout = NotCalled

DescriptionRan(r) ==
  /\ pout' = [kind |-> r.result.status, result |-> r.result]
  /\ vbl_names' = r.names
  /\ queries' = CountQueries(queries, r.queried)

CallGetIndicatorDescription ==
  /\ pin.fn = "_get_indicator_description"
  /\ pout = NotCalled
  /\ DescriptionRan(run_indicator_description(auth, registry, indicator_type_map,
                                              base_url, element_type,
                                              element_ids, NewRun(vbl_names),
                                              pin.indicator_id))
  /\ UNCHANGED <<registry, auth, group, group_desc, element_type, element_ids,
                 indic_to_desc, indicator_type_map, main_vars, pin>>

SpecValidate == InitValidate /\ [][CallGetIndicatorDescription]_vars

-----------------------------------------------------------------------------
(* SpecRender: one call of ValidationErrCode.eng_errmsg *)

InitRender ==
  /\ pin \in [fn : {"eng_errmsg"}, code : DOMAIN ValidationErrCode,
              fillin_list :
                \* plain texts, a text that holds a blank, and texts that
                \* hold a backslash
                SeqsUpTo({ <<"a">>, <<"b">>, <<"c">>, <<"a", "_", "_", "_">>,
                           <<"\\", "1">>, <<"a", "\\", "n">>,
                           <<"\\", "g", "<", "0", ">">> }, MaxFill)]
  /\ pout = NotCalled
  /\ PureIdle

CallEngErrmsg ==
  /\ pin.fn = "eng_errmsg"
  /\ pout = NotCalled
  /\ pout' = eng_errmsg(pin.code, pin.fillin_list)
  /\ UNCHANGED <<registry, auth, parser_vars, main_vars, queries, pin>>

SpecRender == InitRender /\ [][CallEngErrmsg]_vars

(* SpecExtract: one call of extract_numerical_factor *)

InitExtract ==
  /\ pin \in [fn : {"extract_numerical_factor"}, display_text : {Flatten(ps) : ps \in SeqsUpTo(TextPieces, MaxPieces)},
              is_multiplicative : BOOLEAN]
  /\ pout = NotCalled
  /\ PureIdle

CallExtract ==
  /\ pin.fn = "extract_numerical_factor"
  /\ pout = NotCalled
  /\ pout' = extract_numerical_factor(pin.display_text, pin.is_multiplicative)
  /\ UNCHANGED <<registry, auth, parser_vars, main_vars, queries, pin>>

SpecExtract == InitExtract /\ [][CallExtract]_vars

-----------------------------------------------------------------------------
(* Spec: main's loop over the group ids (lines 582-587), with the worker   *)
(* pool of output_all_indicators.                                          *)
(*                                                                         *)
(* mainpc = "construct": main is about to build the parser (line 574).     *)
(* mainpc = "loop": the loop runs on a parser instance whose fields hold   *)
(* what lines 205-216 assign.  Construct never leads there: the methods    *)
(* are studied on such an instance all the same.                           *)

MaxBatch == 2

id_j == <<"j">>
id_g == <<"g">>
id_h == <<"h">>

\* an indicator that validates without a finding once a and b resolve
RoundTripJson(id) ==
  [id |-> id, displayName |-> <<"x">>, numeratorDescription |-> <<"n">>,
   denominatorDescription |-> S_one, numerator |-> F_ab, denominator |-> S_one]

IdList(ids) == [k \in DOMAIN ids |-> [id |-> ids[k]]]

IndicatorGroup(id, ids) ==
  Obj(S_indicatorGroups,
      [id |-> id, displayName |-> <<"G">> \o id,
       lists |-> (S_indicators :> IdList(ids))])

\* the sound registry: both groups, their indicators as the round trip has
\* them, a and b with their names
SoundRegistry ==
  VarRegistry(NamedVars)
    @@ (id_i :> Obj(S_indicators, RoundTripJson(id_i)))
    @@ (id_j :> Obj(S_indicators, RoundTripJson(id_j)))
    @@ (id_g :> IndicatorGroup(id_g, <<id_i, id_j>>))
    @@ (id_h :> IndicatorGroup(id_h, <<id_j>>))

\* <<auth, registry>> for a run of main.  With a token, every registry
\* made of: a and b as in VarObjects; i absent, sound, with a display name
\* that makes extract_numerical_factor raise, or with a numerator that
\* refers to j; j absent or sound; g absent, a group of indicators, one
\* without a display name, or a group of data elements; h absent or the
\* group of j.  Then the sound registry with one answer that is not JSON,
\* and the sound registry with the other auth dictionaries.
Systems ==
  {<<TokenAuth,
     VarRegistry(vo) @@ (id_i :> i) @@ (id_j :> j) @@ (id_g :> g) @@ (id_h :> h)>> :
     vo \in VarObjects,
     i \in {NoneV, Obj(S_indicators, RoundTripJson(id_i)),
            Obj(S_indicators,
                [RoundTripJson(id_i) EXCEPT !.displayName = <<"1", "*">>]),
            Obj(S_indicators,
                [RoundTripJson(id_i) EXCEPT
                   !.numerator = Braced(<<"#">>, id_a) \o <<"+">>
                                   \o Braced(<<"#">>, id_j)])},
     j \in {NoneV, Obj(S_indicators, RoundTripJson(id_j))},
     g \in {NoneV, IndicatorGroup(id_g, <<id_i>>),
            IndicatorGroup(id_g, <<id_i, id_j>>),
            IndicatorGroup(id_g, <<id_j, id_i>>),
            Obj(S_indicatorGroups,
                [id |-> id_g, lists |-> (S_indicators :> IdList(<<id_i>>))]),
            Obj(<<"d","a","t","a","E","l","e","m","e","n","t","G","r","o","u","p","s">>,
                [id |-> id_g, displayName |-> <<"G">>,
                 lists |-> (S_dataElements :> IdList(<<id_a>>))])},
     h \in {NoneV, IndicatorGroup(id_h, <<id_j>>)}}
    \cup {<<TokenAuth, [SoundRegistry EXCEPT ![id] = NotJson]>> :
             id \in {id_a, id_i, id_g}}
    \cup {<<a, SoundRegistry>> : a \in AuthDicts}

Init ==
  /\ \E sys \in Systems : auth = sys[1] /\ registry = sys[2]
  /\ NoGroup
  /\ vbl_names = EmptyDict
  /\ indic_to_desc = EmptyDict
  /\ indicator_type_map = NoTypes
  /\ queries = EmptyDict
  /\ mainpc \in {"construct"} \cup (IF "baseUrl" \in DOMAIN auth THEN {"loop"} ELSE {})
  /\ batch \in SeqsUpTo({id_g, id_h}, MaxBatch)
  /\ gi = 1
  /\ output_values = <<>>
  /\ tasks = <<>>
  /\ pin = [fn |-> "main"]
  /\ pout = NotCalled

\* line 574: dhis_parser = DHIS2Parser(auth), outside any try
Construct ==
  /\ mainpc = "construct"
  /\ LET r == construct_parser(auth, registry)
     IN IF Raised(r)
          THEN mainpc' = "crashed" /\ UNCHANGED indicator_type_map
        ELSE mainpc' = "loop" /\ indicator_type_map' = r.val
  /\ UNCHANGED <<registry, auth, group, group_desc, element_type, element_ids,
                 vbl_names, indic_to_desc, batch, gi, output_values, tasks,
                 queries, pin, pout>>

\* the loop goes on with the next group id, or ends
NextGroup ==
  /\ gi' = gi + 1
  /\ mainpc' = "loop"

LoopDone ==
  /\ mainpc = "loop"
  /\ gi > Len(batch)
  /\ mainpc' = "done"
  /\ UNCHANGED <<registry, auth, parser_vars, batch, gi, output_values, tasks,
                 queries, pin, pout>>

\* line 584: dhis_parser.set_group_id(group_id); an exception is caught at
\* line 586 and the loop goes on
SetGroupId ==
  /\ mainpc = "loop"
  /\ gi <= Len(batch)
  /\ LET r == set_group_id(auth, registry,
                           [group |-> group, group_desc |-> group_desc,
                            element_type |-> element_type,
                            element_ids |-> element_ids],
                           batch[gi])
     IN /\ group' = r.self.group
        /\ group_desc' = r.self.group_desc
        /\ element_type' = r.self.element_type
        /\ element_ids' = r.self.element_ids
        /\ IF Raised(r.ret) THEN NextGroup
           ELSE mainpc' = "scan" /\ gi' = gi
  /\ UNCHANGED <<registry, auth, vbl_names, indic_to_desc, indicator_type_map,
                 batch, output_values, tasks, queries, pin, pout>>

\* line 585, up to executor.map: a group of another element type yields []
\* at once, otherwise one task per element id is submitted
OutputAllIndicators ==
  /\ mainpc = "scan"
  /\ IF element_type # Some(S_indicators)
       THEN /\ output_values' = output_values \o <<>>
            /\ NextGroup
            /\ tasks' = <<>>
     ELSE /\ tasks' = [k \in DOMAIN element_ids |->
                         [id |-> element_ids[k], pc |-> "queued",
                          want |-> <<>>, answers |-> <<>>, exc |-> ""]]
          /\ mainpc' = "pool"
          /\ UNCHANGED <<gi, output_values>>
  /\ UNCHANGED <<registry, auth, parser_vars, batch, queries, pin, pout>>

\* task k, after the calls of _get_variable_name with outcomes `answers`,
\* does what r says
Proceed(k, answers, r) ==
  CASE r.status = "need" ->
         /\ tasks' = [tasks EXCEPT ![k].pc = "resolve", ![k].want = r.id,
                                   ![k].answers = answers]
         /\ UNCHANGED indic_to_desc
    [] r.status = "raise" ->
         /\ tasks' = [tasks EXCEPT ![k].pc = "raised", ![k].exc = r.exc,
                                   ![k].answers = answers]
         /\ UNCHANGED indic_to_desc
    [] r.status = "done" ->
         /\ tasks' = [tasks EXCEPT ![k].pc = "done", ![k].answers = answers]
         /\ indic_to_desc' =
              [d \in DOMAIN indic_to_desc \cup {tasks[k].id} |->
                 IF d = tasks[k].id THEN r.values ELSE indic_to_desc[d]]

\* _add_desc_to_dict goes on with the outcomes `answers` of its calls of
\* _get_variable_name: it asks for the next variable, raises (the executor
\* keeps the exception in a future nobody reads), or stores the description
Advance(k, answers) ==
  Proceed(k, answers,
          get_indicator_description(auth, registry, indicator_type_map, base_url,
                                    tasks[k].id, answers))

\* whether _get_unknown_type_metadata, asked for an id that is no member of
\* the group, sends the request of line 291 after the answer to that of
\* line 285
sends_second_request(auth_dict, reg, eids, vbl_id) ==
  LET idobj_metadata == get_authorized_json(auth_dict, reg, <<S_identifiableObjects, vbl_id>>)
  IN /\ ~InSeq(vbl_id, eids)
     /\ ~Raised(idobj_metadata)
     /\ HasKey(idobj_metadata.val, "href")

\* a worker thread takes the next task of the queue: line 535 finds the id
\* in _indic_to_desc and returns, or the thread goes on to line 412 and
\* waits for the registry
TaskStart(k) ==
  /\ mainpc = "pool"
  /\ tasks[k].pc = "queued"
  /\ \A m \in 1..(k - 1) : tasks[m].pc # "queued"
  /\ Cardinality({m \in DOMAIN tasks :
                    tasks[m].pc \in {"fetch", "resolve", "lookup", "lookup2"}})
       < NUM_THREADS
  /\ tasks' = [tasks EXCEPT ![k].pc = IF tasks[k].id \in DOMAIN indic_to_desc
                                        THEN "done" ELSE "fetch"]
  /\ UNCHANGED <<registry, auth, parser_vars, mainpc, batch, gi,
                 output_values, queries, pin, pout>>

\* the request of line 412 has its answer, or has raised: the thread runs
\* _get_indicator_description up to its first call of _get_variable_name
TaskFetched(k) ==
  /\ mainpc = "pool"
  /\ tasks[k].pc = "fetch"
  /\ Advance(k, <<>>)
  /\ UNCHANGED <<registry, auth, group, group_desc, element_type, element_ids,
                 vbl_names, indicator_type_map, mainpc, batch, gi,
                 output_values, queries, pin, pout>>

\* _get_variable_name, lines 305-306: the id is in the cache
TaskCacheHit(k) ==
  /\ mainpc = "pool"
  /\ tasks[k].pc = "resolve"
  /\ cache_hit(vbl_names, tasks[k].want)
  /\ Advance(k, Append(tasks[k].answers, Ret(vbl_names[tasks[k].want])))
  /\ UNCHANGED <<registry, auth, group, group_desc, element_type, element_ids,
                 vbl_names, indicator_type_map, mainpc, batch, gi,
                 output_values, queries, pin, pout>>

\* _get_variable_name, line 305: the id is not in the cache, and the
\* thread sends the first request of the lookup (line 297, or line 285) and
\* waits; without the means to authorize, no request leaves
TaskCacheMiss(k) ==
  /\ mainpc = "pool"
  /\ tasks[k].pc = "resolve"
  /\ ~cache_hit(vbl_names, tasks[k].want)
  /\ tasks' = [tasks EXCEPT ![k].pc = "lookup"]
  /\ queries' = IF can_authorize(auth) THEN CountQuery(queries, tasks[k].want)
                ELSE queries
  /\ UNCHANGED <<registry, auth, parser_vars, mainpc, batch, gi,
                 output_values, pin, pout>>

\* lines 312-329 after the last answer of the lookup: the entry is written
\* and read back, and the thread goes on to its next call of
\* _get_variable_name
LookupEnds(k) ==
  LET g == after_lookup(vbl_names, tasks[k].want,
                        lookup_variable(auth, registry, element_type,
                                        element_ids, tasks[k].want))
  IN /\ vbl_names' = g.names
     /\ Advance(k, Append(tasks[k].answers, g.ret))

\* the first request of the lookup has its answer: for an id of unknown
\* type that the registry holds, the thread sends the request of line 291
\* and waits again; otherwise the lookup ends
TaskLookup(k) ==
  /\ mainpc = "pool"
  /\ tasks[k].pc = "lookup"
  /\ IF sends_second_request(auth, registry, element_ids, tasks[k].want)
       THEN /\ tasks' = [tasks EXCEPT ![k].pc = "lookup2"]
            /\ UNCHANGED <<vbl_names, indic_to_desc>>
     ELSE LookupEnds(k)
  /\ UNCHANGED <<registry, auth, group, group_desc, element_type, element_ids,
                 indicator_type_map, mainpc, batch, gi, output_values,
                 queries, pin, pout>>

\* the request of line 291 has its answer, and the lookup ends
TaskLookupSecond(k) ==
  /\ mainpc = "pool"
  /\ tasks[k].pc = "lookup2"
  /\ LookupEnds(k)
  /\ UNCHANGED <<registry, auth, group, group_desc, element_type, element_ids,
                 indicator_type_map, mainpc, batch, gi, output_values,
                 queries, pin, pout>>

\* The executor has shut down (every task has ended); lines 548-558 build
\* the list, and main appends it to output_values or catches the exception.
PoolJoin ==
  /\ mainpc = "pool"
  /\ \A k \in DOMAIN tasks : tasks[k].pc \in {"done", "raised"}
  /\ LET r == assemble_output(element_ids, indic_to_desc, group_desc)
     IN output_values' = IF Raised(r) THEN output_values
                         ELSE output_values \o r.val
  /\ NextGroup
  /\ tasks' = <<>>
  /\ UNCHANGED <<registry, auth, parser_vars, batch, queries, pin, pout>>

Next ==
  \/ Construct
  \/ LoopDone
  \/ SetGroupId
  \/ OutputAllIndicators
  \/ \E k \in DOMAIN tasks : TaskStart(k)
  \/ \E k \in DOMAIN tasks : TaskFetched(k)
  \/ \E k \in DOMAIN tasks : TaskCacheHit(k)
  \/ \E k \in DOMAIN tasks : TaskCacheMiss(k)
  \/ \E k \in DOMAIN tasks : TaskLookup(k)
  \/ \E k \in DOMAIN tasks : TaskLookupSecond(k)
  \/ PoolJoin

Spec == Init /\ [][Next]_vars

-----------------------------------------------------------------------------
(* Properties *)

\* a call of the function under study has ended
Called == pout # NotCalled

\* the record rec of a scan's output is the one for the member id
RecordIsFor(rec, id) ==
  \/ rec.indicator_id = id
  \/ rec.validation_values = <<Finding("INDIC_PARSE_FAILED", <<id>>)>>

\* the step with which output_all_indicators ends after its pool has run
ScanEnds == mainpc = "pool" /\ mainpc' # "pool"

\* C1: when output_all_indicators ends for a group of indicators, it has
\* returned one record per member id of the group, in the members' order
\* (main appends what it returns to output_values), however the tasks of the
\* pool were interleaved.
ScanReturnsOneRecordPerMember ==
  [][ScanEnds =>
       /\ Len(output_values') = Len(output_values) + Len(element_ids)
       /\ \A k \in DOMAIN element_ids :
            RecordIsFor(output_values'[Len(output_values) + k], element_ids[k])
    ]_vars

\* C2: when the validation of an indicator raised in its worker, the scan
\* still returns a record for it whose validation values are the single
\* finding INDIC_PARSE_FAILED [id], and for every other indicator the
\* description its worker stored.
FailedWorkerYieldsParseFailedRecord ==
  [][(ScanEnds /\ \E k \in DOMAIN tasks : tasks[k].pc = "raised") =>
       /\ Len(output_values') = Len(output_values) + Len(tasks)
       /\ \A k \in DOMAIN tasks :
            IF tasks[k].pc = "raised"
              THEN output_values'[Len(output_values) + k].validation_values
                     = <<Finding("INDIC_PARSE_FAILED", <<tasks[k].id>>)>>
            ELSE output_values'[Len(output_values) + k]
                   = WithGroupDescription(indic_to_desc[tasks[k].id],
                                          group_desc.v)
    ]_vars

\* the registry can be asked and holds the indicator of the round trip:
\* numerator #{a.b}, denominator 1, a named Cases and b named Total, nothing
\* else amiss
RoundTripRegistry ==
  /\ can_authorize(auth)
  /\ registry[id_i] \in
       {Obj(S_indicators, RoundTripJson(id_i)),
        Obj(S_indicators,
            RoundTripJson(id_i) @@ [indicatorType |-> [id |-> id_t]])}
  /\ registry[id_a] = Obj(S_dataElements, [id |-> id_a, displayName |-> S_Cases])
  /\ registry[id_b]
       = Obj(S_categoryOptionCombos, [id |-> id_b, displayName |-> S_Total])

\* C3: for the indicator of the round trip, _get_indicator_description
\* returns the calculation '{ Cases Total } / { 1 }' and no validation value.
RoundTripYieldsCalculation ==
  (Called /\ RoundTripRegistry) =>
    /\ pout.kind = "done"
    /\ pout.result.values.calculation
         = <<"{", " ">> \o S_Cases \o <<" ">> \o S_Total
             \o <<" ", "}", " ", "/", " ", "{", " ", "1", " ", "}">>
    /\ pout.result.values.validation_values = <<>>

\* the term is a decimal literal whose numeric value is n
LiteralValueIs(term, n) ==
  /\ number_match_at(term, 1) = Some([text |-> term])
  /\ StrToInt(SubSeq(term, 1, RunEnd(term, 1, Digits) - 1)) = n
  /\ \A k \in (RunEnd(term, 1, Digits) + 1)..Len(term) : term[k] = "0"

NumberMissingReported ==
  \E k \in DOMAIN pout.result.vvalues :
    pout.result.vvalues[k].code = "FORMULA_NUMBER_MISSING"

\* C4: _parse_formula appends FORMULA_NUMBER_MISSING exactly when the
\* expected number is not None and no literal term of the formula has a
\* numeric value equal to it.
NumberMissingIffNoLiteral ==
  (Called /\ pout.kind = "done") =>
    (NumberMissingReported <=>
       /\ ~IsNone(pin.number)
       /\ ~\E t \in DOMAIN finditer_total(pin.formula, 1) :
             LiteralValueIs(finditer_total(pin.formula, 1)[t], pin.number.v))

\* the sequence without the repetitions of its elements
RECURSIVE FirstOccurrences(_)
FirstOccurrences(seq) ==
  IF seq = <<>> THEN <<>>
  ELSE LET init == FirstOccurrences(SubSeq(seq, 1, Len(seq) - 1))
       IN IF InSeq(seq[Len(seq)], init) THEN init
          ELSE Append(init, seq[Len(seq)])

IsVariableFinding(f) == f.code \in {"VBL_NOT_IN_REG", "VBL_NO_METADATA"}

\* the cache holds an outcome other than Resolved for the id
Unresolved(id) == vbl_names[id].code # "NO_ERRORS"

\* the finding for an id whose outcome is not Resolved: its code, and the
\* id, the element type if known, and the side
VariableFinding(id, side) ==
  Finding(vbl_names[id].code,
          IF vbl_names[id].type # <<>> THEN <<id, vbl_names[id].type, side>>
          ELSE <<id, side>>)

\* C5: the validation values _parse_formula returns hold, for the ids it
\* resolved in the order of their first occurrence, exactly one finding for
\* each id whose outcome is not Resolved and none for the others, however
\* often and in whichever positions the id occurs.  (A call that returns
\* has met no id the registry holds, deplural raising for those: the
\* outcomes it has met are VBL_NOT_IN_REG.)
OneFindingPerUnresolvedId ==
  (Called /\ pout.kind = "done") =>
    SelectSeq(pout.result.vvalues, IsVariableFinding)
      = [k \in DOMAIN SelectSeq(FirstOccurrences(pout.asked), Unresolved) |->
           VariableFinding(SelectSeq(FirstOccurrences(pout.asked), Unresolved)[k],
                           pin.quantity_type)]

\* the formula #{a.a.a} was parsed with a unresolved: three calls for a,
\* one finding
RepeatedIdParsed ==
  /\ Called
  /\ pout.kind = "done"
  /\ pin.formula = Braced(<<"#">>, <<"a", ".", "a", ".", "a">>)
  /\ pout.asked = <<id_a, id_a, id_a>>
  /\ pout.result.vvalues = <<Finding("VBL_NOT_IN_REG", <<id_a, S_numerator>>)>>

\* C6: _get_variable_name for an id the registry does not hold returns the
\* outcome VBL_NOT_IN_REG without a display name, whether or not the id is
\* among the member ids of the group.
AbsentIdResolvesNotInRegistry ==
  [][\A k \in DOMAIN tasks :
       (/\ tasks[k].pc = "lookup"
        /\ tasks'[k].pc # "lookup"
        /\ IsNone(registry[tasks[k].want]))
       => /\ Len(tasks'[k].answers) = Len(tasks[k].answers) + 1
          /\ ~Raised(tasks'[k].answers[Len(tasks'[k].answers)])
          /\ tasks'[k].answers[Len(tasks'[k].answers)].val.code = "VBL_NOT_IN_REG"
          /\ IsNone(tasks'[k].answers[Len(tasks'[k].answers)].val.name)
    ]_vars

\* C7: an entry of the cache never changes once written, and a call of
\* _get_variable_name for an id the cache holds returns the entry without
\* asking the registry.
CachedEntryReturnedUnchanged ==
  [][/\ \A id \in DOMAIN vbl_names :
          id \in DOMAIN vbl_names' /\ vbl_names'[id] = vbl_names[id]
     /\ \A k \in DOMAIN tasks :
          (/\ tasks[k].pc = "resolve"
           /\ tasks[k].want \in DOMAIN vbl_names
           /\ tasks'[k] # tasks[k])
          => /\ queries' = queries
             /\ tasks'[k].answers
                  = Append(tasks[k].answers, Ret(vbl_names[tasks[k].want]))
    ]_vars

\* two tasks have had their call for a returned, with the same entry, and
\* the registry was asked for a once
SecondCallServedFromCache ==
  /\ id_a \in DOMAIN queries
  /\ queries[id_a] = 1
  /\ \E k1, k2 \in DOMAIN tasks :
       /\ k1 < k2
       /\ tasks[k1].answers # <<>>
       /\ tasks[k2].answers # <<>>
       /\ ~Raised(tasks[k1].answers[1])
       /\ tasks[k1].answers[1] = tasks[k2].answers[1]
       /\ tasks[k1].answers[1] = Ret(vbl_names[id_a])

\* the template from position i on with its blanks replaced, in template
\* order, by the arguments
RECURSIVE SubstituteInOrder(_, _, _)
SubstituteInOrder(template, i, args) ==
  LET starts == {k \in i..Len(template) : StartsAt(template, k, BLANK)} IN
  IF starts = {} \/ args = <<>> THEN SubSeq(template, i, Len(template))
  ELSE LET k == CHOOSE m \in starts : \A o \in starts : m <= o
       IN SubSeq(template, i, k - 1) \o Head(args)
            \o SubstituteInOrder(template, k + Len(BLANK), Tail(args))

\* C8: eng_errmsg with as many arguments as the code has blanks returns the
\* template with the i-th blank replaced by the i-th argument; with another
\* number of arguments it raises ValueError.
RenderFillsBlanksInOrder ==
  Called =>
    IF Len(pin.fillin_list) = ValidationErrCode[pin.code].num_blanks
      THEN pout = Ret(SubstituteInOrder(
                        ValidationErrCode[pin.code].eng_errmsg_template, 1,
                        pin.fillin_list))
    ELSE pout = Exc("ValueError")

\* the leftmost multiplicative pattern of the text without its whitespace
\* and commas
FirstPattern ==
  NumberSearch(SubChars(pin.display_text, Whitespace \cup {","}, <<>>), 1, TRUE)

\* C9: extract_numerical_factor(text, True) returns the integer of the first
\* multiplicative pattern of the text: the number after per, pour, par, * or
\* /, or the number that a * follows.
ExtractReturnsPatternNumber ==
  (Called /\ pin.is_multiplicative /\ ~IsNone(FirstPattern)) =>
    pout = Ret(Some(StrToInt(IF IsNone(FirstPattern.v.g1)
                               THEN FirstPattern.v.g2.v
                             ELSE FirstPattern.v.g1.v)))

\* C10: when set_group_id fails for the first group of the batch, the second
\* group is still scanned and its records are in the output at the end.
LaterGroupStillScanned ==
  (/\ mainpc = "done"
   /\ batch = <<id_g, id_h>>
   /\ IsNone(registry[id_g])
   /\ registry[id_h] = IndicatorGroup(id_h, <<id_j>>))
  => /\ Len(output_values) = 1
     /\ RecordIsFor(output_values[1], id_j)

\* the side a finding of _parse_formula names: the last of the values of a
\* variable's finding, the first of those of FORMULA_NUMBER_MISSING
SideOf(f) ==
  IF f.code = "FORMULA_NUMBER_MISSING" THEN f.args[1] ELSE f.args[Len(f.args)]

\* the place of a finding in the fixed sequence of the description
StageOf(f) ==
  CASE f.code \in {"INDIC_NOT_IN_REG", "INDIC_NO_DISPLAY_NAME"} -> 1
    [] f.code = "NUMER_NO_DESC" -> 2
    [] f.code = "DENOM_NO_DESC" -> 3
    [] f.code = "INDIC_NUMBER_MISSING" -> 4
    [] f.code = "NUMER_NO_FORMULA" -> 5
    [] f.code = "DENOM_NO_FORMULA" -> 6
    [] f.code = "DENOM_FORMULA_NO_MATCH" -> 7
    [] f.code = "NUMER_EQS_DENOM" -> 8
    [] f.code \in {"VBL_NOT_IN_REG", "VBL_NO_METADATA",
                   "FORMULA_NUMBER_MISSING"} ->
         IF SideOf(f) = S_numerator THEN 9 ELSE 10
    [] OTHER -> 0

\* C11: the validation values of a description _get_indicator_description
\* returns follow the fixed sequence: the findings about the indicator, in
\* the order of the checks, then those of the numerator's formula, then
\* those of the denominator's; none of a later stage precedes one of an
\* earlier stage, and each check before the formulas reports at most once.
FindingsFollowFixedSequence ==
  (Called /\ pout.kind = "done") =>
    \A k1, k2 \in DOMAIN pout.result.values.validation_values :
      k1 < k2 =>
        /\ StageOf(pout.result.values.validation_values[k1]) >= 1
        /\ StageOf(pout.result.values.validation_values[k1])
             <= StageOf(pout.result.values.validation_values[k2])
        /\ StageOf(pout.result.values.validation_values[k1]) <= 8 =>
             StageOf(pout.result.values.validation_values[k1])
               < StageOf(pout.result.values.validation_values[k2])

\* a description was returned with a finding about the indicator, one of
\* the numerator's formula and one of the denominator's
FindingsOfThreeStagesReturned ==
  /\ Called
  /\ pout.kind = "done"
  /\ \E k1, k2, k3 \in DOMAIN pout.result.values.validation_values :
       /\ k1 < k2 /\ k2 < k3
       /\ StageOf(pout.result.values.validation_values[k1]) \in 1..8
       /\ StageOf(pout.result.values.validation_values[k2]) = 9
       /\ StageOf(pout.result.values.validation_values[k3]) = 10

\* C12: in a run, the registry is asked for the metadata of a variable id
\* at most once, whichever way the tasks of the pool are interleaved: one
\* task performs the lookup, every other call for the id is served from the
\* cache.
EachVariableQueriedOnce ==
  \A id \in DOMAIN queries : queries[id] <= 1

\* the entry has its three parts, and a display name exactly when its code
\* is NO_ERRORS
CompleteAndConsistent(entry) ==
  /\ DOMAIN entry = {"name", "code", "type"}
  /\ entry.code \in DOMAIN ValidationErrCode
  /\ ~IsNone(entry.name) <=> entry.code = "NO_ERRORS"

\* what the registry may have answered for a variable: nothing, an object
\* without a display name, with an empty one, with one
MetadataFound ==
  {JsonNull, [id |-> id_a], [id |-> id_a, displayName |-> <<>>],
   [id |-> id_a, displayName |-> S_Cases]}

\* C13: whichever way the tasks of the pool are interleaved, every entry of
\* the cache is complete (display name, code and variable type, written by
\* one assignment) and has a display name exactly when its code is
\* NO_ERRORS.  The entries a run writes have the code VBL_NOT_IN_REG,
\* deplural raising before an entry is written for an id the registry
\* holds; the entry that lines 317-327 build is as well complete and
\* consistent for every metadata the lookup can have found.
CacheEntriesCompleteAndConsistent ==
  /\ \A id \in DOMAIN vbl_names : CompleteAndConsistent(vbl_names[id])
  /\ \A vbl_json \in MetadataFound, valid_code \in {"NO_ERRORS", "VBL_NOT_IN_REG"},
        vbl_type \in {<<>>, S_dataElements} :
        CompleteAndConsistent(
          variable_entry(vbl_json, valid_code, Ret(vbl_type)).val)

\* a task has read the entry of a from the cache while another task is
\* between its cache test and the write of its entry
EntryReadDuringOtherLookup ==
  /\ id_a \in DOMAIN vbl_names
  /\ \E k1, k2 \in DOMAIN tasks :
       /\ k1 # k2
       /\ tasks[k1].pc = "lookup"
       /\ tasks[k2].pc = "resolve"
       /\ tasks[k2].answers = <<Ret(vbl_names[id_a])>>

\* the finding has as many values as its code has blanks, and eng_errmsg
\* does not raise ValueError for it
Renders(f) ==
  /\ Len(f.args) = ValidationErrCode[f.code].num_blanks
  /\ eng_errmsg(f.code, f.args) # Exc("ValueError")

\* what a lookup hands to lines 317-327: no metadata and VBL_NOT_IN_REG
\* without a type, or NO_ERRORS with the type asked for and whatever was
\* found
LookupOutcomes ==
  {<<JsonNull, "VBL_NOT_IN_REG", <<>>>>}
    \cup {<<vbl_json, "NO_ERRORS", S_dataElements>> : vbl_json \in MetadataFound}

\* the state of the loop of _parse_formula before its first term
NothingParsed ==
  [calculation |-> <<>>, vvalues |-> <<>>, vbls_seen |-> <<>>,
   number_seen |-> TRUE, used |-> 0]

\* C14: every validation value of a description that
\* _get_indicator_description returns, those of the two formulas included,
\* has as many values as its code has blanks, so that eng_errmsg renders it
\* without ValueError; and so has the value lines 371-377 append for every
\* entry lines 317-327 can build, with or without a variable type.
EveryFindingRenders ==
  /\ (Called /\ pout.kind = "done") =>
       \A k \in DOMAIN pout.result.values.validation_values :
         Renders(pout.result.values.validation_values[k])
  /\ \A o \in LookupOutcomes :
       \A k \in DOMAIN after_resolve(NothingParsed, id_a,
                          variable_entry(o[1], o[2], Ret(o[3])).val,
                          S_numerator).vvalues :
         Renders(after_resolve(NothingParsed, id_a,
                               variable_entry(o[1], o[2], Ret(o[3])).val,
                               S_numerator).vvalues[k])
  /\ Renders(ParseFailedValues(id_i).validation_values[1])

\* a description was returned whose validation values have no, one and two
\* values
FindingsOfThreeAritiesReturned ==
  /\ Called
  /\ pout.kind = "done"
  /\ \A n \in 0..2 :
       \E k \in DOMAIN pout.result.values.validation_values :
         Len(pout.result.values.validation_values[k].args) = n

====
